---- MODULE Spec2Model ----
(***************************************************************************)
(* Verification model of the GPX -> polyhedron pipeline (GPXtruder        *)
(* Modern): path builder, STL emitter, track scanner, distance filter and *)
(* the application controller that drives them.                           *)
(*                                                                         *)
(* Number representation.  The program works on IEEE doubles; the model   *)
(* works on integers:                                                      *)
(*   - angles are integers in units of pi/8 (Pi == 8), so the eight        *)
(*     compass directions are the even values -6..8 and halving a turn is  *)
(*     exact;                                                              *)
(*   - planar lengths handed to trigonometry are in thousandths (milli);   *)
(*   - geodesic distances are integers (points on the equator, where the   *)
(*     Vincenty distance is proportional to the longitude difference).     *)
(***************************************************************************)
EXTENDS Integers, Sequences, FiniteSets, TLC

\* ------------------------------------------------------------------------
\* Bounds of the model
\* ------------------------------------------------------------------------
MaxStations == 4

\* raw points of a scanned track
MaxPts == 4

\* generations waiting for their timer
MaxPending == 1

\* raw longitudes are 0..MaxLon (one unit of longitude on the equator is
\* one unit of geodesic distance)
MaxLon == 3

\* marker intervals are 0..MaxInterval
MaxInterval == 3

\* fitted elevation profiles of a track of n stations: flat, and rising by
\* one per station (every station then has a z of its own)
Elevations(n) == {[k \in 1..n |-> 2], [k \in 1..n |-> k]}

\* ribbon half-widths (thousandths) a generation may be given
Buffers == {500, 2000}

\* ------------------------------------------------------------------------
\* Small arithmetic helpers
\* ------------------------------------------------------------------------
Abs(x) == IF x < 0 THEN -x ELSE x

Sign(x) == IF x > 0 THEN 1 ELSE IF x < 0 THEN -1 ELSE 0

\* product of two milli-scaled numbers, truncated toward zero
MulMilli(a, b) == Sign(a) * Sign(b) * ((Abs(a) * Abs(b)) \div 1000)

Pi == 8

\* 1000 * cos(k * pi/8)
CosTable == <<1000, 924, 707, 383, 0, -383, -707, -924,
              -1000, -924, -707, -383, 0, 383, 707, 924>>

Cos(k) == CosTable[(k % 16) + 1]

Sin(k) == Cos(k - 4)

\* ------------------------------------------------------------------------
\* State
\* ------------------------------------------------------------------------
VARIABLES
    outputPoints,   \* ctx.outputPoints: fitted stations <<x, y, z>>, x and y in
                    \* thousandths
    buffer,         \* ctx.options.buffer, in thousandths
    pathI,          \* loop index i of _processPath
    pathS,          \* accepted-station counter s of _processPath
    lastAngle,      \* lastAngle of _processPath
    vertices,       \* vertices array of _processPath
    faces,          \* faces array of _processPath
    accepted,       \* history: per accepted station its index i and the
                    \* relAngle and jointAngle it was built with
    pathpc,         \* "idle" | "loop" | "done" | "threw"
    \* ModelCode.generateSTL
    stlBuffer,      \* the ArrayBuffer: byte offset -> byte, <<>> before
    stlOffset,      \* offset
    stlI,           \* loop index i
    stlStarts,      \* history: offset at which each record began
    stlpc,          \* "idle" | "records" | "done" | "threw"
    \* ModelGenerator._scanPoints and _distFilter
    pts,            \* the raw points <<lon, lat, ele>> passed to generate
    options,        \* the options object passed to generate (ctx.options
                    \* is the same object)
    optionsAtCall,  \* history: the value of options when generate was called
    projector,      \* PointProjector.projection (process-wide)
    scanI,          \* loop index i of _scanPoints
    totaldist,      \* totaldist
    cd,             \* cd
    md,             \* md
    rawpointcd,     \* rawpointcd
    markerObjs,     \* markerObjs
    markers,        \* ctx.markers
    geoBounds,      \* <<minLon, maxLon, minLat, maxLat>>
    mindist,        \* the smoothing distance handed to _distFilter
    filterCur,      \* cur of _distFilter
    filterPre,      \* pre of _distFilter
    filteredPts,    \* filteredPts
    filteredDst,    \* filteredDst
    filterTotal,    \* total
    keptIdx,        \* history: raw index of each kept point
    scanpc,         \* "idle" | "scan" | "smooth" | "filter" | "done" | "threw"
    \* ModelGenerator.generate
    projectedPoints, \* ctx.projectedPoints, x and y in thousandths
    bounds,         \* ctx.bounds
    offset,         \* ctx.offset, x and y doubled (minx + maxx, miny + maxy)
    scale,          \* ctx.scale as <<numerator, denominator>>
    progress,       \* history: the values given to the progress bar, by
                    \* onProgress and by generateModel, in order
    genResult,      \* the value generate returned
    thrown,         \* the message of the error generate threw, "" if none
    genpc,          \* "idle" | "scan" | "fit" | "path" | "returned" | "threw"
    \* application controller (utils.js)
    dom,            \* the form controls read by the handlers
    btnGenerateDisabled, \* dom.btnGenerate.disabled
    gpxData,        \* state.gpxData
    gpxInfo,        \* state.gpxInfo
    modelResult,    \* state.modelResult
    modelTrack,     \* history: the raw points state.modelResult was
                    \* generated from
    timers,         \* pending setTimeout callbacks of generateModel, each
                    \* with the options it captured
    message,        \* the message shown last
    \* a library function called on its own
    fnName,         \* the function: "parse" | "UTM.proj" | "distVincenty",
                    \* "" when none is called
    fnArgs,         \* its arguments
    fnLocals,       \* its local variables while it runs
    fnResult,       \* the value it returned
    fnpc            \* "idle" | "called" | "loop" | "returned"

pathVars == <<outputPoints, buffer, pathI, pathS, lastAngle, vertices, faces,
              accepted, pathpc>>

stlVars == <<stlBuffer, stlOffset, stlI, stlStarts, stlpc>>

scanVars == <<pts, options, optionsAtCall, projector, scanI, totaldist, cd, md, rawpointcd, markerObjs,
             markers,
              geoBounds, mindist, filterCur, filterPre, filteredPts,
              filteredDst, filterTotal, keptIdx, scanpc>>

scanVarsButMarkers ==
    <<pts, options, optionsAtCall, projector, scanI, totaldist, cd, md,
      rawpointcd, markerObjs, geoBounds, mindist, filterCur, filterPre,
      filteredPts, filteredDst, filterTotal, keptIdx, scanpc>>

appVarsButTimers == <<dom, btnGenerateDisabled, gpxData, gpxInfo, modelResult, modelTrack,
                      message>>

genVars == <<projectedPoints, bounds, offset, scale, progress, genResult,
            thrown,
             genpc>>

appVars == <<dom, btnGenerateDisabled, gpxData, gpxInfo, modelResult, modelTrack, timers,
             message>>

fnVars == <<fnName, fnArgs, fnLocals, fnResult, fnpc>>

vars == <<pathVars, stlVars, scanVars, genVars, appVars, fnVars>>

\* no library function is being called on its own
FnIdle ==
    /\ fnName = ""
    /\ fnArgs = <<>>
    /\ fnLocals = <<>>
    /\ fnResult = <<>>
    /\ fnpc = "idle"

\* ------------------------------------------------------------------------
\* Geometry helpers (utils.js)
\* ------------------------------------------------------------------------
\* Math.atan2(dy, dx) on the eight compass rays, in units of pi/8;
\* atan2(0, 0) is 0
Atan2(dy, dx) ==
    IF dy = 0 THEN (IF dx >= 0 THEN 0 ELSE Pi)
    ELSE IF dx = 0 THEN (IF dy > 0 THEN 4 ELSE -4)
    ELSE IF dy > 0 THEN (IF dx > 0 THEN 2 ELSE 6)
    ELSE (IF dx > 0 THEN -2 ELSE -6)

vectorAngle(a, b) == Atan2(b[2] - a[2], b[1] - a[1])

\* ------------------------------------------------------------------------
\* Path builder (model-generator.js)
\* ------------------------------------------------------------------------
NumPoints == Len(outputPoints)

\* outputPoints[i], 0-based as in the source
OP(i) == outputPoints[i + 1]

isAcute(angle) == (Abs(angle) > Pi \div 2) /\ (Abs(angle) < (3 * Pi) \div 2)

\* segmentAngle(i) for 0 <= i < NumPoints and NumPoints >= 2
segmentAngle(i) ==
    IF i + 1 = NumPoints
    THEN vectorAngle(OP(i - 1), OP(i))
    ELSE vectorAngle(OP(i), OP(i + 1))

\* jointr of jointPoints: buffer / cos(rel/2), limited to 2 * buffer.
\* Math.cos(+-pi/2) is a tiny positive double, so the quotient is a huge
\* positive number and the limit applies with sign +.
jointRadius(rel) ==
    LET c == Cos(rel \div 2)
        raw == IF c = 0 THEN 4 * buffer
               ELSE Sign(c) * ((buffer * 1000) \div Abs(c))
    IN IF Abs(raw) > buffer * 2 THEN Sign(raw) * buffer * 2 ELSE raw

jointPoints(i, rel, avga) ==
    LET jointr == jointRadius(rel)
        lx == OP(i)[1] + MulMilli(jointr, Cos(avga + Pi \div 2))
        ly == OP(i)[2] + MulMilli(jointr, Sin(avga + Pi \div 2))
        rx == OP(i)[1] + MulMilli(jointr, Cos(avga - Pi \div 2))
        ry == OP(i)[2] + MulMilli(jointr, Sin(avga - Pi \div 2))
    IN << <<lx, ly>>, <<rx, ry>> >>

\* PathSegment.points with the upper pair pushed before the lower pair
PathSegmentPointsUpperFirst(a, v, z) ==
    a \o << <<v[1][1], v[1][2], z>>,
            <<v[2][1], v[2][2], z>>,
            <<v[1][1], v[1][2], 0>>,
            <<v[2][1], v[2][2], 0>> >>

\* PathSegment.points(a, v, z)
PathSegmentPoints(a, v, z) ==
    a \o << <<v[1][1], v[1][2], 0>>,
            <<v[2][1], v[2][2], 0>>,
            <<v[1][1], v[1][2], z>>,
            <<v[2][1], v[2][2], z>> >>

\* PathSegment.firstFace emitting a single triangle
firstFaceOneTriangle(a) == a \o << <<0, 2, 3>> >>

\* PathSegment.firstFace(a)
firstFace(a) == a \o << <<0, 2, 3>>, <<3, 1, 0>> >>

\* PathSegment.lastFace indexing the quad after the last one
lastFaceOffByOne(a, s) ==
    LET i == s * 4
    IN a \o << <<i + 2, i + 1, i + 3>>, <<i + 2, i + 0, i + 1>> >>

\* PathSegment.lastFace(a, s)
lastFace(a, s) ==
    LET i == (s - 1) * 4
    IN a \o << <<i + 2, i + 1, i + 3>>, <<i + 2, i + 0, i + 1>> >>

\* PathSegment.faces with the second bottom triangle wound the other way
PathSegmentFacesFlipped(a, s) ==
    IF s = 0 THEN firstFace(a)
    ELSE LET i == (s - 1) * 4
         IN a \o << <<i + 2, i + 6, i + 3>>, <<i + 3, i + 6, i + 7>>,
                    <<i + 3, i + 7, i + 5>>, <<i + 3, i + 5, i + 1>>,
                    <<i + 6, i + 2, i + 0>>, <<i + 6, i + 0, i + 4>>,
                    <<i + 0, i + 5, i + 4>>, <<i + 0, i + 5, i + 1>> >>

\* PathSegment.faces(a, s)
PathSegmentFaces(a, s) ==
    IF s = 0 THEN firstFace(a)
    ELSE LET i == (s - 1) * 4
         IN a \o << <<i + 2, i + 6, i + 3>>, <<i + 3, i + 6, i + 7>>,
                    <<i + 3, i + 7, i + 5>>, <<i + 3, i + 5, i + 1>>,
                    <<i + 6, i + 2, i + 0>>, <<i + 6, i + 0, i + 4>>,
                    <<i + 0, i + 5, i + 4>>, <<i + 0, i + 1, i + 5>> >>

\* the skip test without the look-ahead at station i + 1
skipStationNoLookahead(i, angle, relAngle) ==
    /\ isAcute(relAngle)
    /\ i < NumPoints - 1

\* the test that makes the loop of _processPath `continue`
skipStation(i, angle, relAngle) ==
    /\ isAcute(relAngle)
    /\ i < NumPoints - 1
    /\ isAcute(segmentAngle(i + 1) - angle)

\* one iteration of the loop of _processPath, 2 or more stations:
\* values of angle, lastAngle, relAngle and jointAngle at station pathI
curAngle == segmentAngle(pathI)

curLast == IF pathI = 0 THEN curAngle ELSE lastAngle

curRel == curAngle - curLast

curJoint == curRel \div 2 + curLast

\* a single fitted point: segmentAngle(0) calls segmentAngle(-1), which
\* reads outputPoints[-1][1] and raises a TypeError
PathThrow ==
    /\ pathpc = "loop"
    /\ UNCHANGED <<stlVars, fnVars, scanVars, genVars, appVars>>
    /\ pathI < NumPoints
    /\ NumPoints = 1
    /\ pathpc' = "threw"
    /\ UNCHANGED <<outputPoints, buffer, pathI, pathS, lastAngle, vertices,
                   faces, accepted>>

\* the iteration ends in `continue`
PathSkip ==
    /\ pathpc = "loop"
    /\ UNCHANGED <<stlVars, fnVars, scanVars, genVars, appVars>>
    /\ pathI < NumPoints
    /\ NumPoints > 1
    /\ skipStation(pathI, curAngle, curRel)
    /\ pathI' = pathI + 1
    /\ lastAngle' = curLast
    /\ UNCHANGED <<outputPoints, buffer, pathS, vertices, faces, accepted,
                   pathpc>>

\* the iteration appends the station's cross-section and its triangles
PathAccept ==
    /\ pathpc = "loop"
    /\ UNCHANGED <<stlVars, fnVars, scanVars, genVars, appVars>>
    /\ pathI < NumPoints
    /\ NumPoints > 1
    /\ ~skipStation(pathI, curAngle, curRel)
    /\ vertices' = PathSegmentPoints(vertices,
                       jointPoints(pathI, curRel, curJoint), OP(pathI)[3])
    /\ faces' = PathSegmentFaces(faces, pathS)
    /\ pathS' = pathS + 1
    /\ lastAngle' = curAngle
    /\ accepted' = Append(accepted,
                    [i |-> pathI, rel |-> curRel, joint |-> curJoint])
    /\ pathI' = pathI + 1
    /\ UNCHANGED <<outputPoints, buffer, pathpc>>

\* after the loop: the end cap
PathFinish ==
    /\ pathpc = "loop"
    /\ UNCHANGED <<stlVars, fnVars, scanVars, genVars, appVars>>
    /\ pathI = NumPoints
    /\ faces' = lastFace(faces, Len(vertices) \div 4)
    /\ pathpc' = "done"
    /\ UNCHANGED <<outputPoints, buffer, pathI, pathS, lastAngle, vertices,
                   accepted>>

\* ------------------------------------------------------------------------
\* Tracks handed to the path builder
\* ------------------------------------------------------------------------
\* a track is a walk of unit steps (millimetres) along the compass rays
Steps == {<<1, 0>>, <<1, 1>>, <<0, 1>>, <<-1, 1>>,
          <<-1, 0>>, <<-1, -1>>, <<0, -1>>, <<1, -1>>, <<0, 0>>}

RECURSIVE Walk(_, _, _)
\* stations reached from `at` by the steps st[k..]
Walk(st, k, at) ==
    IF k > Len(st) THEN <<at>>
    ELSE <<at>> \o Walk(st, k + 1, <<at[1] + st[k][1], at[2] + st[k][2]>>)

TracksOver(steps, n) ==
    { [k \in 1..n |-> <<1000 * Walk(st, 1, <<0, 0>>)[k][1],
                        1000 * Walk(st, 1, <<0, 0>>)[k][2], zs[k]>>] :
        st \in [1..(n - 1) -> steps], zs \in Elevations(n) }

Stations(n) == TracksOver(Steps, n)

PathStart ==
    /\ buffer \in Buffers
    /\ pathI = 0
    /\ pathS = 0
    /\ lastAngle = 0
    /\ vertices = <<>>
    /\ faces = <<>>
    /\ accepted = <<>>
    /\ pathpc = "loop"

\* tracks of five stations that go back and forth along one line: runs of
\* reversals, the tracks the acute-run collapse is made for
ReversalTracks == TracksOver({<<1, 0>>, <<-1, 0>>}, 5)

PathInit ==
    /\ \/ \E n \in 1..MaxStations : outputPoints \in Stations(n)
       \/ outputPoints \in ReversalTracks
    /\ PathStart

PathNext == PathThrow \/ PathSkip \/ PathAccept \/ PathFinish

\* ------------------------------------------------------------------------
\* STL emitter (model-generator.js, ModelCode.generateSTL)
\* ------------------------------------------------------------------------
\* this.rawFaces and this.rawPoints are the arrays _processPath built
rawFaces == faces

rawPoints == vertices

\* 0-based element of an array
At(a, k) == a[k + 1]

\* the four bytes DataView.setFloat32(.., v, true) stores
F32Bytes(v) == [b \in 1..4 |-> <<"f32", v, b - 1>>]

\* the bytes DataView.setUint32 / setUint16(.., n, true) store
UintLEBytes(n, w) == [b \in 1..w |-> (n \div (256 ^ (b - 1))) % 256]

\* "STL gerado por GPXtruder Modern".length
HeaderLength == 31

\* header.charCodeAt(i), kept symbolic, or 0 past the banner
HeaderByte(i) == IF i < HeaderLength THEN <<"hdr", i>> ELSE 0

\* bufferSize computed from a triangle count that forgets the 4 count bytes
bufferSizeNoCount(numTriangles) == 80 + (numTriangles * 50)

\* bufferSize of generateSTL
bufferSize(numTriangles) == 84 + (numTriangles * 50)

\* a DataView write of `bytes` at `off` stays inside the buffer
InBuffer(buf, off, w) == off >= 0 /\ off + w <= Len(buf)

\* the buffer after the write; byte o of the buffer is buf[o + 1]
WriteBytes(buf, off, bytes) ==
    [o \in 1..Len(buf) |->
        IF o - 1 >= off /\ o - 1 < off + Len(bytes)
        THEN bytes[o - off] ELSE buf[o]]

\* one component of the normalised normal: c / len when len > 0, where
\* len = |n| is positive exactly when n is not the zero vector (the
\* quotient is kept symbolic)
NormalComponent(c, n) ==
    IF n # <<0, 0, 0>> THEN <<"div", c, "len", n>> ELSE c

\* the twelve floats of the record of a face, in the order written
RecordFloats(face) ==
    LET v0 == At(rawPoints, face[1])
        v1 == At(rawPoints, face[2])
        v2 == At(rawPoints, face[3])
        ux == v1[1] - v0[1]
        uy == v1[2] - v0[2]
        uz == v1[3] - v0[3]
        vx == v2[1] - v0[1]
        vy == v2[2] - v0[2]
        vz == v2[3] - v0[3]
        nx == uy * vz - uz * vy
        ny == uz * vx - ux * vz
        nz == ux * vy - uy * vx
        n == <<nx, ny, nz>>
    IN << NormalComponent(nx, n), NormalComponent(ny, n),
          NormalComponent(nz, n),
          v0[1], v0[2], v0[3], v1[1], v1[2], v1[3], v2[1], v2[2], v2[3] >>

RECURSIVE FloatBytes(_, _)
\* the bytes of the floats fs[k..], concatenated
FloatBytes(fs, k) ==
    IF k > Len(fs) THEN <<>> ELSE F32Bytes(fs[k]) \o FloatBytes(fs, k + 1)

\* the 50 bytes of a record: 12 floats, then the attribute byte count 0
RecordBytes(face) == FloatBytes(RecordFloats(face), 1) \o UintLEBytes(0, 2)

\* allocation, header and triangle count
STLStart ==
    /\ pathpc = "done"
    /\ stlpc = "idle"
    /\ LET numTriangles == Len(rawFaces)
           size == bufferSize(numTriangles)
           header == [o \in 1..size |-> IF o <= 80 THEN HeaderByte(o - 1) ELSE 0]
       IN IF InBuffer(header, 80, 4)
          THEN /\ stlBuffer' = WriteBytes(header, 80, UintLEBytes(numTriangles, 4))
               /\ stlpc' = "records"
          ELSE /\ stlBuffer' = header
               /\ stlpc' = "threw"
    /\ stlOffset' = 84
    /\ stlI' = 0
    /\ stlStarts' = <<>>
    /\ UNCHANGED <<pathVars, scanVars, genVars, appVars, fnVars>>

\* one iteration of the record loop; a face index without a vertex or a
\* write past the end of the buffer raises
STLRecord ==
    /\ stlpc = "records"
    /\ stlI < Len(rawFaces)
    /\ LET face == At(rawFaces, stlI)
           ok == /\ \A j \in 1..3 : face[j] >= 0 /\ face[j] < Len(rawPoints)
                 /\ InBuffer(stlBuffer, stlOffset, 50)
       IN IF ok
          THEN /\ stlBuffer' = WriteBytes(stlBuffer, stlOffset, RecordBytes(face))
               /\ stlOffset' = stlOffset + 50
               /\ stlI' = stlI + 1
               /\ stlStarts' = Append(stlStarts, stlOffset)
               /\ stlpc' = "records"
          ELSE /\ stlpc' = "threw"
               /\ UNCHANGED <<stlBuffer, stlOffset, stlI, stlStarts>>
    /\ UNCHANGED <<pathVars, scanVars, genVars, appVars, fnVars>>

\* return buffer
STLReturn ==
    /\ stlpc = "records"
    /\ stlI = Len(rawFaces)
    /\ stlpc' = "done"
    /\ UNCHANGED <<stlBuffer, stlOffset, stlI, stlStarts>>
    /\ UNCHANGED <<pathVars, scanVars, genVars, appVars, fnVars>>

STLIdle ==
    /\ stlBuffer = <<>>
    /\ stlOffset = 0
    /\ stlI = 0
    /\ stlStarts = <<>>
    /\ stlpc = "idle"

STLNext == STLStart \/ STLRecord \/ STLReturn

\* tracks whose meshes are serialised: straight, right turn, reversal
STLSteps == {<<1, 0>>, <<0, 1>>, <<-1, 0>>}

STLInit ==
    /\ \E n \in 2..MaxStations : outputPoints \in TracksOver(STLSteps, n)
    /\ PathStart

\* ------------------------------------------------------------------------
\* Track scanner (model-generator.js, _scanPoints and _distFilter)
\* ------------------------------------------------------------------------
\* a / b truncated toward zero, b # 0
TruncDiv(a, b) == Sign(a) * Sign(b) * (Abs(a) \div Abs(b))

\* the doubles NaN and Infinity, as numbers no coordinate takes
NaN == 0 - 2000000000

Infinity == 2000000000

\* a + b of doubles: NaN when an operand is NaN
Plus(a, b) == IF a = NaN \/ b = NaN THEN NaN ELSE a + b

\* a >= b of doubles: false when an operand is NaN
AtLeast(a, b) == a # NaN /\ b # NaN /\ a >= b

\* 180 degrees of longitude, in metres of equator (pi * 6378137)
HalfEquator == 20037508

\* the equatorial arc beyond which the geodesic between two points of the
\* equator leaves the equator, (1 - f) * pi * 6378137 metres: from there to
\* the antipode the lambda iteration of distVincenty oscillates and does
\* not converge
AntipodalFrom == 19970326

\* distVincenty between two points of the equator (lat1 = lat2 = 0), whose
\* longitudes are in metres of equator: the geodesic is the equatorial arc
\* |lon2 - lon1|; 0 for coincident points; NaN for nearly antipodal
\* points, where the iteration runs out
distVincenty(lat1, lon1, lat2, lon2) ==
    IF Abs(lon2 - lon1) > AntipodalFrom THEN NaN ELSE Abs(lon2 - lon1)

SHAPE_MAP == 0

SHAPE_LINEAR == 1

SHAPE_RING == 2

\* pts[i], 0-based
Pt(i) == pts[i + 1]

\* ctx.bed
bedX == options.bedx - 2 * options.buffer

bedY == options.bedy - 2 * options.buffer

Min(a, b) == IF a < b THEN a ELSE b

\* Math.floor(ctx.options.buffer / calcScale(bed, xextent, yextent)) for a
\* positive bed and extents that are n / q with q > 0: an extent of 0
\* gives the scale bed / 0 = Infinity, which Math.min discards (and
\* buffer / Infinity is 0 when both are 0)
floorBufferOverScale(xn, yn, q) ==
    LET fx == IF xn = 0 THEN 0 ELSE (options.buffer * xn) \div (q * bedX)
        fy == IF yn = 0 THEN 0 ELSE (options.buffer * yn) \div (q * bedY)
    IN IF fx > fy THEN fx ELSE fy

\* pi as the fraction PiNum / PiDen
PiNum == 355

PiDen == 113

\* smoothingDistance of _scanPoints
smoothingDistance ==
    IF options.smoothtype # 0 THEN options.smoothspan
    ELSE IF options.shapetype = SHAPE_MAP
         THEN floorBufferOverScale(geoBounds[2] - geoBounds[1],
                                   geoBounds[4] - geoBounds[3], 1)
    ELSE IF options.shapetype = SHAPE_LINEAR
         THEN floorBufferOverScale(totaldist, 0, 1)
    ELSE floorBufferOverScale(totaldist * PiDen, totaldist * PiDen, PiNum)

\* easting of (0 E, 0 N) in UTM zone 31, metres
UTMOriginEasting == 166021

\* projection.forward([lon, lat]) for lon and lat in thousandths, on the
\* equator near 0 E, in thousandths of a metre; the Mercator forms give
\* x = a * lambda, the equatorial arc; UTM zone 31 gives the easting, its
\* local scale factor taken as 1; a NaN coordinate gives NaN
forwardMilli(projection, lon, lat) ==
    IF lon = NaN \/ lat = NaN THEN <<NaN, NaN>>
    ELSE IF projection = "GOOGLE" \/ projection = "+proj=merc"
    THEN <<lon, 0>>
    ELSE <<UTMOriginEasting * 1000 + lon, 0>>

\* PointProjector.project: projection.forward([lon, lat]) of a raw point
forward(projection, lon, lat) == forwardMilli(projection, lon * 1000, lat * 1000)

\* _projectPoint(ctx, point, cdr) for the map and linear shapes, with
\* cdr = cdn / cdd (cdd > 0); x and y in thousandths
projectPoint(point, cdn, cdd) ==
    IF options.shapetype = SHAPE_LINEAR
    THEN <<0, (cdn * totaldist * 1000) \div cdd, point[3]>>
    ELSE LET xy == forward(projector, point[1], point[2])
         IN <<xy[1], xy[2], point[3]>>

\* PointProjector.ring(v, cdr, ringRadius): the point of the circle of
\* circumference totaldist at the fraction cdn / cdd of a turn, kept by
\* its polar form
ringPoint(cdn, cdd, z) ==
    <<<<"ringx", totaldist, cdn, cdd>>, <<"ringy", totaldist, cdn, cdd>>, z>>

\* _projectPoint(ctx, point, cdn / cdd) of the marker loop, which runs
\* right after PointProjector.init(projection); the point has lon, lat and
\* elevation in thousandths, and so has the result
projectMarkerPoint(projection, point, cdn, cdd) ==
    IF options.shapetype = SHAPE_LINEAR
    THEN <<0, IF cdn = NaN THEN NaN ELSE (cdn * totaldist * 1000) \div cdd,
           point[3]>>
    ELSE IF options.shapetype = SHAPE_RING
    THEN ringPoint(cdn, cdd, point[3])
    ELSE LET xy == forwardMilli(projection, point[1], point[2])
         IN <<xy[1], xy[2], point[3]>>

\* values of one iteration of the scan loop at raw point scanI
segdist == distVincenty(Pt(scanI - 1)[2], Pt(scanI - 1)[1],
                        Pt(scanI)[2], Pt(scanI)[1])

lastSeg == options.markerInterval - md

\* the whole segment counted as overshoot past the marker
nextSegWholeSegment == segdist

nextSeg == segdist - lastSeg

\* the marker test of the scan loop
markerDue ==
    /\ options.markerInterval > 0
    /\ AtLeast(Plus(md, segdist), options.markerInterval)

\* minLon, maxLon, minLat, maxLat extended by a raw point
extendGeo(b, p) ==
    << IF p[1] < b[1] THEN p[1] ELSE b[1], IF p[1] > b[2] THEN p[1] ELSE b[2],
       IF p[2] < b[3] THEN p[2] ELSE b[3], IF p[2] > b[4] THEN p[2] ELSE b[4] >>

\* a + (ls / sd) * (b - a) of the marker interpolation, in thousandths;
\* ls / 0 is an infinity or NaN, and an infinity times 0 is NaN
interpolate(a, b, ls, sd) ==
    IF sd # 0 THEN a * 1000 + TruncDiv(ls * (b - a) * 1000, sd)
    ELSE IF ls = 0 \/ b = a THEN NaN
    ELSE Sign(ls) * Sign(b - a) * Infinity

\* markerpoint of the scan loop
markerpoint ==
    [c \in 1..3 |-> interpolate(Pt(scanI - 1)[c], Pt(scanI)[c],
                                lastSeg, segdist)]

\* a raw point in thousandths
PtMilli(i) == [c \in 1..3 |-> Pt(i)[c] * 1000]

\* rawpointcd[j], 0-based as in the source: the cumulative distance at raw
\* point j + 1; undefined past the end, which the division by
\* ctx.distance turns into NaN
rawpointcdAt(j) == IF j + 1 <= Len(rawpointcd) THEN rawpointcd[j + 1] ELSE NaN

\* vectorAngle(a, b) when a coordinate may be NaN: Math.atan2 of NaN is NaN
vectorAngleOrNaN(a, b) ==
    IF a[1] = NaN \/ a[2] = NaN \/ b[1] = NaN \/ b[2] = NaN THEN NaN
    ELSE vectorAngle(a, b)

\* markerAngle: vectorAngle of the projections of rawpoints[seg - 1] and
\* rawpoints[seg], at the ratios rawpointcd[seg - 1] and rawpointcd[seg]
\* over ctx.distance
markerAngle(projection, m) ==
    IF options.shapetype = SHAPE_RING
    THEN <<"ringangle", rawpointcdAt(m.seg - 1), rawpointcdAt(m.seg),
           totaldist>>
    ELSE vectorAngleOrNaN(
           projectMarkerPoint(projection, PtMilli(m.seg - 1),
                              rawpointcdAt(m.seg - 1), totaldist),
           projectMarkerPoint(projection, PtMilli(m.seg),
                              rawpointcdAt(m.seg), totaldist))

\* ctx.markers after the marker loop
projectedMarkers(projection) ==
    [k \in 1..Len(markerObjs) |->
        [location |-> projectMarkerPoint(projection, markerObjs[k].loc,
                                         markerObjs[k].pos, totaldist),
         orientation |-> markerAngle(projection, markerObjs[k])]]

\* an iteration of the scan loop that places no marker
ScanPoint ==
    /\ scanpc = "scan"
    /\ scanI < Len(pts)
    /\ ~markerDue
    /\ geoBounds' = extendGeo(geoBounds, Pt(scanI))
    /\ totaldist' = Plus(totaldist, segdist)
    /\ md' = Plus(md, segdist)
    /\ cd' = Plus(cd, segdist)
    /\ rawpointcd' = Append(rawpointcd, Plus(cd, segdist))
    /\ scanI' = scanI + 1
    /\ UNCHANGED <<pts, options, optionsAtCall, projector, markerObjs, markers, mindist, filterCur, filterPre,
                   filteredPts, filteredDst, filterTotal, keptIdx, scanpc>>
    /\ UNCHANGED <<pathVars, stlVars, fnVars, genVars, appVars>>

\* an iteration of the scan loop that places a marker; the interpolation
\* fraction pd = lastSeg / segdist is kept as the pair <<lastSeg, segdist>>
ScanMarker ==
    /\ scanpc = "scan"
    /\ scanI < Len(pts)
    /\ markerDue
    /\ geoBounds' = extendGeo(geoBounds, Pt(scanI))
    /\ totaldist' = Plus(totaldist, segdist)
    /\ cd' = Plus(cd, segdist)
    /\ rawpointcd' = Append(rawpointcd, Plus(cd, segdist))
    /\ markerObjs' = Append(markerObjs,
                        [loc |-> markerpoint,
                         pd |-> <<lastSeg, segdist>>,
                         pos |-> (cd + segdist) - nextSeg,
                         seg |-> scanI])
    /\ md' = nextSeg
    /\ scanI' = scanI + 1
    /\ UNCHANGED <<pts, options, optionsAtCall, projector, markers, mindist,
                   filterCur, filterPre,
                   filteredPts, filteredDst, filterTotal, keptIdx, scanpc>>
    /\ UNCHANGED <<pathVars, stlVars, fnVars, genVars, appVars>>

PROJ_GOOGLE == 0

PROJ_CUSTOM == 1

PROJ_UTM == 2

\* metres of equator to one degree of longitude: 2 * pi * a / 360 for the
\* semi-major axis a of distVincenty
MetresPerDegree == 111319

\* a midpoint (lo + hi) / 2 of raw coordinates in half degrees, rounded
\* down, from the sum lo + hi in metres of equator: the zone and the
\* hemisphere of a midpoint are those of its half degree
HalfDegrees(sum) == sum \div MetresPerDegree

\* UTM.zone counting zones from 0
UTMzoneFromZero(lon) == ((lon + 360) - ((lon + 360) % 12)) \div 12

\* UTM.zone(lon) for lon + 180 >= 0, lon in half degrees
UTMzone(lon) == (((lon + 360) - ((lon + 360) % 12)) \div 12) + 1

\* UTM.hemi(lat)
UTMhemi(lat) == IF lat < 0 THEN " +south" ELSE ""

\* UTM.proj(lat, lon) for lat and lon in half degrees: the definition
\* string, by its variable parts
UTMproj(lat, lon) == <<"+proj=utm +zone=", UTMzone(lon), UTMhemi(lat)>>

\* the definitions proj4() accepts; any other argument makes it throw
Recognised(def) ==
    \/ def = "GOOGLE"
    \/ def = "+proj=merc"
    \/ (Len(def) = 3 /\ def[1] = "+proj=utm +zone=" /\ def[2] \in 1..60)

\* ctx.options.projection after the projection is configured
configuredProjection ==
    IF options.projtype = PROJ_UTM
    THEN UTMproj(HalfDegrees(geoBounds[3] + geoBounds[4]),
                 HalfDegrees(geoBounds[1] + geoBounds[2]))
    ELSE IF options.projtype = PROJ_GOOGLE THEN "GOOGLE"
    ELSE options.projection

\* after the loop: ctx.distance, the projection written into the options,
\* and PointProjector.init
ScanProjection ==
    /\ scanpc = "scan"
    /\ scanI = Len(pts)
    /\ Recognised(configuredProjection)
    /\ options' = [options EXCEPT !.projection = configuredProjection]
    /\ projector' = configuredProjection
    /\ markers' = projectedMarkers(configuredProjection)
    /\ scanpc' = "smooth"
    /\ UNCHANGED <<pts, optionsAtCall, scanI, totaldist, cd, md, rawpointcd,
                   markerObjs, geoBounds, mindist, filterCur, filterPre,
                   filteredPts, filteredDst, filterTotal, keptIdx>>
    /\ UNCHANGED <<pathVars, stlVars, fnVars, genVars, appVars>>

\* PointProjector.init throws: "Projecao de mapa nao reconhecida."
ScanProjectionThrow ==
    /\ scanpc = "scan"
    /\ scanI = Len(pts)
    /\ ~Recognised(configuredProjection)
    /\ options' = [options EXCEPT !.projection = configuredProjection]
    /\ scanpc' = "threw"
    /\ UNCHANGED <<pts, optionsAtCall, projector, scanI, totaldist, cd, md,
                   rawpointcd, markerObjs, markers, geoBounds, mindist, filterCur,
                   filterPre, filteredPts, filteredDst, filterTotal, keptIdx>>
    /\ UNCHANGED <<pathVars, stlVars, fnVars, genVars, appVars>>

\* the smoothing distance, and the entry of _distFilter
ScanSmooth ==
    /\ scanpc = "smooth"
    /\ mindist' = smoothingDistance
    /\ filteredPts' = <<Pt(0)>>
    /\ filteredDst' = <<>>
    /\ filterTotal' = 0
    /\ filterCur' = 1
    /\ filterPre' = 0
    /\ keptIdx' = <<0>>
    /\ scanpc' = "filter"
    /\ UNCHANGED <<pts, options, optionsAtCall, projector, scanI, totaldist,
                   cd, md, rawpointcd, markerObjs, markers, geoBounds>>
    /\ UNCHANGED <<pathVars, stlVars, fnVars, genVars, appVars>>

\* the point the filter measures from, taken as the previous raw point
filterRefPreviousRaw(points, kept, pre, cur) == points[cur]

\* the point the filter measures from: filteredPts[pre]
filterRef(points, kept, pre, cur) == kept[pre + 1]

\* dist of one iteration of the filter loop
filterDist ==
    LET ref == filterRef(pts, filteredPts, filterPre, filterCur)
    IN distVincenty(Pt(filterCur)[2], Pt(filterCur)[1], ref[2], ref[1])

filterKeeps == mindist = 0 \/ AtLeast(filterDist, mindist)

FilterKeep ==
    /\ scanpc = "filter"
    /\ filterCur < Len(pts)
    /\ filterKeeps
    /\ filteredPts' = Append(filteredPts, Pt(filterCur))
    /\ filteredDst' = Append(filteredDst, filterDist)
    /\ filterTotal' = Plus(filterTotal, filterDist)
    /\ filterPre' = filterPre + 1
    /\ keptIdx' = Append(keptIdx, filterCur)
    /\ filterCur' = filterCur + 1
    /\ UNCHANGED <<pts, options, optionsAtCall, projector, scanI, totaldist, cd, md, rawpointcd,
                   markerObjs, markers, geoBounds, mindist, scanpc>>
    /\ UNCHANGED <<pathVars, stlVars, fnVars, genVars, appVars>>

FilterDrop ==
    /\ scanpc = "filter"
    /\ filterCur < Len(pts)
    /\ ~filterKeeps
    /\ filterCur' = filterCur + 1
    /\ UNCHANGED <<pts, options, optionsAtCall, projector, scanI, totaldist, cd, md, rawpointcd,
                   markerObjs, markers, geoBounds, mindist, filterPre, filteredPts,
                   filteredDst, filterTotal, keptIdx, scanpc>>
    /\ UNCHANGED <<pathVars, stlVars, fnVars, genVars, appVars>>

\* ctx.ll, ctx.d and ctx.smoothTotal are filteredPts, filteredDst and total
FilterFinish ==
    /\ scanpc = "filter"
    /\ filterCur = Len(pts)
    /\ scanpc' = "done"
    /\ UNCHANGED <<pts, options, optionsAtCall, projector, scanI, totaldist, cd, md, rawpointcd,
                   markerObjs, markers, geoBounds, mindist, filterCur, filterPre,
                   filteredPts, filteredDst, filterTotal, keptIdx>>
    /\ UNCHANGED <<pathVars, stlVars, fnVars, genVars, appVars>>

ll == filteredPts

d == filteredDst

smoothTotal == filterTotal

RECURSIVE SumSeq(_, _)
\* q[k] + ... + q[Len(q)]
SumSeq(q, k) == IF k > Len(q) THEN 0 ELSE q[k] + SumSeq(q, k + 1)

\* q[1] + ... + q[n]
SumTo(q, n) == SumSeq(SubSeq(q, 1, n), 1)

\* raw tracks on the equator, elevation rising by 10 per point
RawTracks ==
    UNION { { [k \in 1..n |-> <<lons[k], 0, 10 * k>>] :
                lons \in [1..n -> 0..MaxLon] } : n \in 2..MaxPts }

\* the options record collectOptions builds, at its simplest: half-width
\* 5 on a 30 x 30 bed, no markers, automatic smoothing, map shape
BaseOptions ==
    [buffer |-> 5, vertical |-> 1, bedx |-> 30, bedy |-> 30, base |-> 1,
     zcut |-> FALSE, zoverride |-> FALSE, zconstant |-> 100,
     regionfit |-> FALSE, region_minx |-> 0, region_maxx |-> 0,
     region_miny |-> 0, region_maxy |-> 0,
     shapetype |-> SHAPE_MAP, projtype |-> PROJ_GOOGLE, projection |-> "",
     markerInterval |-> 0, smoothtype |-> 0, smoothspan |-> 10]

\* smoothing and shape settings of a scan
SmoothSettings ==
    {<<0, 10, SHAPE_MAP>>, <<0, 10, SHAPE_LINEAR>>, <<0, 10, SHAPE_RING>>,
     <<1, 1, SHAPE_MAP>>, <<1, 2, SHAPE_MAP>>}

\* projection settings of a scan: the radio and the text field
ProjSettings ==
    {<<PROJ_GOOGLE, "">>, <<PROJ_UTM, "">>, <<PROJ_CUSTOM, "+proj=merc">>,
     <<PROJ_CUSTOM, "bogus">>}

ScanOptions ==
    { [BaseOptions EXCEPT !.markerInterval = mi, !.smoothtype = sm[1],
                          !.smoothspan = sm[2], !.shapetype = sm[3]] :
        mi \in 0..MaxInterval, sm \in SmoothSettings }
    \cup
    { [BaseOptions EXCEPT !.projtype = pr[1], !.projection = pr[2]] :
        pr \in ProjSettings }

\* entry of _scanPoints
ScanStart ==
    /\ scanI = 1
    /\ totaldist = 0
    /\ cd = 0
    /\ md = 0
    /\ rawpointcd = <<>>
    /\ markerObjs = <<>>
    /\ markers = <<>>
    /\ geoBounds = <<pts[1][1], pts[1][1], pts[1][2], pts[1][2]>>
    /\ mindist = 0
    /\ filterCur = 0
    /\ filterPre = 0
    /\ filteredPts = <<>>
    /\ filteredDst = <<>>
    /\ filterTotal = 0
    /\ keptIdx = <<>>
    /\ scanpc = "scan"

ScanInit ==
    /\ pts \in RawTracks
    /\ options \in ScanOptions
    /\ optionsAtCall = options
    /\ projector = "none"
    /\ ScanStart

ScanIdle ==
    /\ pts = <<>>
    /\ options = BaseOptions
    /\ optionsAtCall = BaseOptions
    /\ projector = "none"
    /\ scanI = 0
    /\ totaldist = 0
    /\ cd = 0
    /\ md = 0
    /\ rawpointcd = <<>>
    /\ markerObjs = <<>>
    /\ markers = <<>>
    /\ geoBounds = <<>>
    /\ mindist = 0
    /\ filterCur = 0
    /\ filterPre = 0
    /\ filteredPts = <<>>
    /\ filteredDst = <<>>
    /\ filterTotal = 0
    /\ keptIdx = <<>>
    /\ scanpc = "idle"

PathIdle ==
    /\ outputPoints = <<>>
    /\ buffer = 0
    /\ pathI = 0
    /\ pathS = 0
    /\ lastAngle = 0
    /\ vertices = <<>>
    /\ faces = <<>>
    /\ accepted = <<>>
    /\ pathpc = "idle"

\* ------------------------------------------------------------------------
\* GPX parser (gpx-parser.js)
\* ------------------------------------------------------------------------
\* null
Null == <<>>

\* A GPX text, by the document DOMParser makes of it: whether it is
\* well-formed, and its <trk> elements in document order; a <trk> has the
\* texts of its <name> elements and its <trkseg> elements; a <trkseg> is
\* its <trkpt> elements; a <trkpt> has lon, lat and the values of its
\* <ele> elements.

\* the numbers written by the decimal texts that occur in the documents
NumberOf ==
    [t \in {"0", "1", "2", "3", "5", "7", "8", "9", "20", "30", "31", "40",
            "50", "60"} |->
        CASE t = "0" -> 0 [] t = "1" -> 1 [] t = "2" -> 2 [] t = "3" -> 3
          [] t = "5" -> 5 [] t = "7" -> 7 [] t = "8" -> 8 [] t = "9" -> 9
          [] t = "20" -> 20 [] t = "30" -> 30 [] t = "31" -> 31
          [] t = "40" -> 40 [] t = "50" -> 50 [] t = "60" -> 60]

\* parseFloat(text): the number a decimal text writes, NaN for a text
\* that starts with no number (the empty text among them)
parseFloat(text) ==
    IF text \in DOMAIN NumberOf THEN NumberOf[text] ELSE NaN

\* _parsePoint with the override test left out: the first <ele> always
\* wins
parsePointIgnoringOverride(pt, forceElevation, defaultElevation) ==
    LET elevation == IF Len(pt.ele) > 0
                     THEN parseFloat(pt.ele[1]) ELSE defaultElevation
    IN <<parseFloat(pt.lon), parseFloat(pt.lat), elevation>>

\* GPXParser._parsePoint
parsePoint(pt, forceElevation, defaultElevation) ==
    LET elevation == IF ~forceElevation /\ Len(pt.ele) > 0
                     THEN parseFloat(pt.ele[1]) ELSE defaultElevation
    IN <<parseFloat(pt.lon), parseFloat(pt.lat), elevation>>

\* GPXParser._parseSegment
parseSegment(segment, forceElevation, defaultElevation) ==
    [k \in 1..Len(segment) |->
        parsePoint(segment[k], forceElevation, defaultElevation)]

RECURSIVE parseSegmentsFromReversed(_, _, _, _)
\* the loop of _parseTrack putting each segment before the earlier ones
parseSegmentsFromReversed(segments, i, forceElevation, defaultElevation) ==
    IF i > Len(segments) THEN <<>>
    ELSE parseSegmentsFromReversed(segments, i + 1, forceElevation,
                                   defaultElevation)
         \o parseSegment(segments[i], forceElevation, defaultElevation)

RECURSIVE parseSegmentsFrom(_, _, _, _)
\* the loop of _parseTrack from segment i on
parseSegmentsFrom(segments, i, forceElevation, defaultElevation) ==
    IF i > Len(segments) THEN <<>>
    ELSE parseSegment(segments[i], forceElevation, defaultElevation)
         \o parseSegmentsFrom(segments, i + 1, forceElevation,
                              defaultElevation)

\* GPXParser._parseTrack
parseTrack(track, forceElevation, defaultElevation) ==
    parseSegmentsFrom(track.segs, 1, forceElevation, defaultElevation)

RECURSIVE trackLength(_, _)
\* totalDistance of _calculateInfo: consecutive distances from point i on
trackLength(points, i) ==
    IF i >= Len(points) THEN 0
    ELSE Plus(distVincenty(points[i][2], points[i][1],
                           points[i + 1][2], points[i + 1][1]),
              trackLength(points, i + 1))

RECURSIVE elevationGain(_, _)
\* totalGain of _calculateInfo: the positive elevation differences from
\* point i on
elevationGain(points, i) ==
    IF i >= Len(points) THEN 0
    ELSE (IF points[i + 1][3] > points[i][3]
          THEN points[i + 1][3] - points[i][3] ELSE 0)
         + elevationGain(points, i + 1)

RECURSIVE elevationLoss(_, _)
\* totalLoss of _calculateInfo: the other elevation differences, as
\* absolute values
elevationLoss(points, i) ==
    IF i >= Len(points) THEN 0
    ELSE (IF points[i + 1][3] > points[i][3]
          THEN 0 ELSE Abs(points[i + 1][3] - points[i][3]))
         + elevationLoss(points, i + 1)

\* GPXParser._calculateInfo
calculateInfo(points, track) ==
    [name |-> IF Len(track.names) > 0 THEN track.names[1]
              ELSE "Trilha sem nome",
     totalPoints |-> Len(points),
     totalDistance |-> trackLength(points, 1),
     minElevation |-> CHOOSE e \in {points[k][3] : k \in 1..Len(points)} :
                         \A k \in 1..Len(points) : e <= points[k][3],
     maxElevation |-> CHOOSE e \in {points[k][3] : k \in 1..Len(points)} :
                         \A k \in 1..Len(points) : e >= points[k][3],
     totalGain |-> elevationGain(points, 1),
     totalLoss |-> elevationLoss(points, 1),
     hasElevation |-> \E k \in 1..Len(points) :
                         points[k][3] # 1 /\ points[k][3] # 0,
     startCoord |-> [lat |-> points[1][2], lon |-> points[1][1]],
     endCoord |-> [lat |-> points[Len(points)][2],
                   lon |-> points[Len(points)][1]]]

\* parse handing back the points it found when they are too few
parseKeepingPoints(doc, forceElevation, defaultElevation) ==
    IF ~doc.wellFormed
    THEN [points |-> Null, info |-> Null, error |-> "xml"]
    ELSE IF Len(doc.trks) = 0
    THEN [points |-> Null, info |-> Null, error |-> "notrack"]
    ELSE LET points == parseTrack(doc.trks[1], forceElevation,
                                  defaultElevation)
         IN IF Len(points) < 2
            THEN [points |-> points, info |-> Null, error |-> "fewpoints"]
            ELSE [points |-> points,
                  info |-> calculateInfo(points, doc.trks[1]),
                  error |-> ""]

\* parse looking for tracks before it looks for the parser's error
parseTracksFirst(doc, forceElevation, defaultElevation) ==
    IF Len(doc.trks) = 0
    THEN [points |-> Null, info |-> Null, error |-> "notrack"]
    ELSE IF ~doc.wellFormed
    THEN [points |-> Null, info |-> Null, error |-> "xml"]
    ELSE LET points == parseTrack(doc.trks[1], forceElevation,
                                  defaultElevation)
         IN IF Len(points) < 2
            THEN [points |-> Null, info |-> Null, error |-> "fewpoints"]
            ELSE [points |-> points,
                  info |-> calculateInfo(points, doc.trks[1]),
                  error |-> ""]

\* GPXParser.parse
parse(doc, forceElevation, defaultElevation) ==
    IF ~doc.wellFormed
    THEN [points |-> Null, info |-> Null, error |-> "xml"]
    ELSE IF Len(doc.trks) = 0
    THEN [points |-> Null, info |-> Null, error |-> "notrack"]
    ELSE LET points == parseTrack(doc.trks[1], forceElevation,
                                  defaultElevation)
         IN IF Len(points) < 2
            THEN [points |-> Null, info |-> Null, error |-> "fewpoints"]
            ELSE [points |-> points,
                  info |-> calculateInfo(points, doc.trks[1]),
                  error |-> ""]

\* ------------------------------------------------------------------------
\* Generator (model-generator.js, generate, _projectPoints, fit)
\* ------------------------------------------------------------------------
\* new Bounds(xyz)
newBounds(xyz) ==
    [minx |-> xyz[1], maxx |-> xyz[1], miny |-> xyz[2], maxy |-> xyz[2],
     minz |-> xyz[3], maxz |-> xyz[3]]

\* Bounds.update(xyz)
boundsUpdate(b, xyz) ==
    [minx |-> IF xyz[1] < b.minx THEN xyz[1] ELSE b.minx,
     maxx |-> IF xyz[1] > b.maxx THEN xyz[1] ELSE b.maxx,
     miny |-> IF xyz[2] < b.miny THEN xyz[2] ELSE b.miny,
     maxy |-> IF xyz[2] > b.maxy THEN xyz[2] ELSE b.maxy,
     minz |-> IF xyz[3] < b.minz THEN xyz[3] ELSE b.minz,
     maxz |-> IF xyz[3] > b.maxz THEN xyz[3] ELSE b.maxz]

RECURSIVE boundsOver(_, _, _)
\* the bounds after the points q[k..] have updated b
boundsOver(b, q, k) ==
    IF k > Len(q) THEN b ELSE boundsOver(boundsUpdate(b, q[k]), q, k + 1)

\* the region rectangle left out of the bounds
regionBoundsOfPoints(b) == b

\* the region rectangle written over the x and y bounds (thousandths)
regionBounds(b) ==
    IF options.regionfit
    THEN [b EXCEPT !.maxx = options.region_maxx * 1000,
                   !.minx = options.region_minx * 1000,
                   !.maxy = options.region_maxy * 1000,
                   !.miny = options.region_miny * 1000]
    ELSE b

\* calcOffsets(bounds, zcut); Bounds.center() doubled
calcOffsets(b, zcut) ==
    << b.minx + b.maxx, b.miny + b.maxy,
       IF zcut = TRUE \/ b.minz <= 0 THEN b.minz - 1 ELSE 0 >>

\* calcScale(bed, xextent, yextent) for a positive bed and extents >= 0 in
\* thousandths, as a fraction; an extent of 0 gives Infinity, which
\* Math.min discards unless both are
calcScale(bx, by, xextent, yextent) ==
    IF xextent = 0 /\ yextent = 0 THEN <<1, 0>>
    ELSE IF xextent = 0 THEN <<by * 1000, yextent>>
    ELSE IF yextent = 0 THEN <<bx * 1000, xextent>>
    ELSE IF bx * yextent <= by * xextent THEN <<bx * 1000, xextent>>
    ELSE <<by * 1000, yextent>>

\* scaleBounds(bounds, bed)
scaleBounds(b) == calcScale(bedX, bedY, b.maxx - b.minx, b.maxy - b.miny)

\* cumulative kept distance at kept point k (1-based): d[1] + ... + d[k-1]
cdAt(k) == SumTo(d, k - 1)

\* ctx.projectedPoints after the loop of _projectPoints
projectAll ==
    [k \in 1..Len(ll) |->
        IF k = 1 THEN projectPoint(ll[1], 0, 1)
        ELSE projectPoint(ll[k], cdAt(k), smoothTotal)]

\* _calculateZScale(ctx): for a custom projection bed.y over the geodesic
\* length of the y bounds, which is 0 on the equator
calculateZScale ==
    IF options.projtype = PROJ_CUSTOM
    THEN LET len == distVincenty(bounds.miny, bounds.minx,
                                 bounds.maxy, bounds.minx)
         IN IF len = 0 THEN <<1, 0>> ELSE <<bedY, len>>
    ELSE scale

\* scale * (v - offset) for a doubled offset; Infinity * 0 is NaN
fitXY(v, off2) ==
    IF scale[2] = 0
    THEN (IF 2 * v = off2 THEN NaN ELSE Sign(2 * v - off2) * Infinity)
    ELSE TruncDiv(scale[1] * (2 * v - off2), 2 * scale[2])

\* zscale * (z - offset) * vertical + base, in whole millimetres
fitZ(z, zscale) ==
    IF zscale[2] = 0
    THEN (IF z = offset[3] THEN NaN ELSE Sign(z - offset[3]) * Infinity)
    ELSE TruncDiv(zscale[1] * (z - offset[3]) * options.vertical, zscale[2])
         + options.base

\* fit(v) of generate
fit(v, zscale) ==
    <<fitXY(v[1], offset[1]), fitXY(v[2], offset[2]), fitZ(v[3], zscale)>>

\* the message of the error of proj4 itself, were it not caught and
\* replaced
ProjectionErrorOfProj4 == "proj4: unknown projection"

\* the message of the Error that _scanPoints throws when
\* PointProjector.init fails
ProjectionError == "Projecao de mapa nao reconhecida."

\* the message of a TypeError raised by a read of a property of undefined
\* or null
TypeError == "TypeError"

\* generate(pts, options, onProgress) is entered: the context is built,
\* onProgress(10), and _scanPoints starts; the call is made by the timer
\* callback of generateModel with state.gpxData and the captured options
GenStart ==
    /\ genpc = "idle"
    /\ Len(timers) > 0
    /\ gpxData # Null
    /\ timers' = Tail(timers)
    /\ pts' = gpxData
    /\ options' = Head(timers)
    /\ optionsAtCall' = Head(timers)
    /\ scanI' = 1
    /\ totaldist' = 0
    /\ cd' = 0
    /\ md' = 0
    /\ rawpointcd' = <<>>
    /\ markerObjs' = <<>>
    /\ markers' = <<>>
    /\ geoBounds' = <<gpxData[1][1], gpxData[1][1], gpxData[1][2], gpxData[1][2]>>
    /\ mindist' = 0
    /\ filterCur' = 0
    /\ filterPre' = 0
    /\ filteredPts' = <<>>
    /\ filteredDst' = <<>>
    /\ filterTotal' = 0
    /\ keptIdx' = <<>>
    /\ scanpc' = "scan"
    /\ projectedPoints' = <<>>
    /\ bounds' = Null
    /\ offset' = Null
    /\ scale' = Null
    /\ progress' = Append(progress, 10)
    /\ genResult' = Null
    /\ thrown' = ""
    /\ genpc' = "scan"
    /\ UNCHANGED <<projector, dom, btnGenerateDisabled, gpxData, gpxInfo,
                   modelResult, modelTrack, message>>
    /\ UNCHANGED <<pathVars, stlVars, fnVars>>

\* the same call when state.gpxData is null: after onProgress(10),
\* _scanPoints reads pts[0] and raises a TypeError
GenStartNull ==
    /\ genpc = "idle"
    /\ Len(timers) > 0
    /\ gpxData = Null
    /\ timers' = Tail(timers)
    /\ options' = Head(timers)
    /\ optionsAtCall' = Head(timers)
    /\ progress' = Append(progress, 10)
    /\ genResult' = Null
    /\ thrown' = TypeError
    /\ genpc' = "threw"
    /\ UNCHANGED <<pts, projector, scanI, totaldist, cd, md, rawpointcd,
                   markerObjs, markers, geoBounds, mindist, filterCur, filterPre,
                   filteredPts, filteredDst, filterTotal, keptIdx, scanpc>>
    /\ UNCHANGED <<projectedPoints, bounds, offset, scale>>
    /\ UNCHANGED <<appVarsButTimers, pathVars, stlVars, fnVars>>

\* _scanPoints has returned: onProgress(30), _projectPoints, onProgress(50)
GenProject ==
    /\ genpc = "scan"
    /\ scanpc = "done"
    /\ projectedPoints' = projectAll
    /\ bounds' = regionBounds(boundsOver(newBounds(projectAll[1]),
                                         projectAll, 2))
    /\ offset' = calcOffsets(bounds', options.zcut)
    /\ scale' = scaleBounds(bounds')
    /\ progress' = progress \o <<30, 50>>
    /\ genpc' = "fit"
    /\ UNCHANGED <<genResult, thrown>>
    /\ UNCHANGED <<pathVars, stlVars, fnVars, scanVars, appVars>>

\* a * b / c truncated toward zero, c # 0, without forming a * b
MulDivTrunc(a, b, c) ==
    Sign(a) * Sign(b) * Sign(c)
    * ((Abs(a) \div Abs(c)) * Abs(b) + ((Abs(a) % Abs(c)) * Abs(b)) \div Abs(c))

\* zscale * (z - offset) * vertical + base for a z in thousandths, in
\* thousandths of a millimetre
fitMarkerZ(z, zscale) ==
    IF z = NaN THEN NaN
    ELSE IF Abs(z) = Infinity
    THEN (IF zscale[1] = 0 THEN NaN ELSE z)
    ELSE IF zscale[2] = 0
    THEN (IF z = offset[3] * 1000 THEN NaN
          ELSE Sign(z - offset[3] * 1000) * Infinity)
    ELSE MulDivTrunc(zscale[1], (z - offset[3] * 1000) * options.vertical,
                     zscale[2]) + options.base * 1000

\* fit of a marker location, whose x, y and z are in thousandths
fitMarker(v, zscale) ==
    << IF v[1] = NaN THEN NaN ELSE fitXY(v[1], offset[1]),
       IF v[2] = NaN THEN NaN ELSE fitXY(v[2], offset[2]),
       fitMarkerZ(v[3], zscale) >>

\* the fit of the projected points, onProgress(70), and the entry of
\* _processPath
GenFit ==
    /\ genpc = "fit"
    /\ outputPoints' = [k \in 1..Len(projectedPoints) |->
                           fit(projectedPoints[k], calculateZScale)]
    /\ buffer' = options.buffer * 1000
    /\ pathI' = 0
    /\ pathS' = 0
    /\ lastAngle' = 0
    /\ vertices' = <<>>
    /\ faces' = <<>>
    /\ accepted' = <<>>
    /\ pathpc' = "loop"
    /\ markers' = [k \in 1..Len(markers) |->
                       [location |-> fitMarker(markers[k].location,
                                               calculateZScale),
                        orientation |-> markers[k].orientation]]
    /\ progress' = Append(progress, 70)
    /\ genpc' = "path"
    /\ UNCHANGED <<projectedPoints, bounds, offset, scale, genResult, thrown>>
    /\ UNCHANGED <<scanVarsButMarkers, stlVars, fnVars, appVars>>

\* _processPath has returned: onProgress(90) and the returned artifact
GenReturn ==
    /\ genpc = "path"
    /\ pathpc = "done"
    /\ progress' = Append(progress, 90)
    /\ genResult' = [code |-> [rawPoints |-> vertices, rawFaces |-> faces,
                               rawMarkers |-> markers,
                               markerWidth |-> 2 * options.buffer + 2],
                     bounds |-> bounds,
                     distance |-> totaldist,
                     outputPoints |-> outputPoints,
                     scale |-> scale,
                     bed |-> [x |-> options.bedx, y |-> options.bedy]]
    /\ genpc' = "returned"
    /\ UNCHANGED <<projectedPoints, bounds, offset, scale, thrown>>
    /\ UNCHANGED <<pathVars, stlVars, fnVars, scanVars, appVars>>

\* an exception of _scanPoints or _processPath leaves generate
GenThrow ==
    /\ \/ genpc = "scan" /\ scanpc = "threw"
       \/ genpc = "path" /\ pathpc = "threw"
    /\ thrown' = IF scanpc = "threw" THEN ProjectionError ELSE TypeError
    /\ genpc' = "threw"
    /\ UNCHANGED <<projectedPoints, bounds, offset, scale, progress,
                   genResult>>
    /\ UNCHANGED <<pathVars, stlVars, fnVars, scanVars, appVars>>

\* ------------------------------------------------------------------------
\* Application controller (utils.js, app.js part)
\* ------------------------------------------------------------------------
\* GPX texts a user loads
DocTwoPoints ==
    [wellFormed |-> TRUE,
     trks |-> << [names |-> <<"A">>,
                  segs |-> << << [lon |-> "0", lat |-> "0", ele |-> <<"50">>],
                                 [lon |-> "3", lat |-> "0", ele |-> <<"60">>] >> >>] >>]

DocZigZag ==
    [wellFormed |-> TRUE,
     trks |-> << [names |-> <<>>,
                  segs |-> << << [lon |-> "0", lat |-> "0", ele |-> <<"20">>],
                                 [lon |-> "3", lat |-> "0", ele |-> <<>>] >>,
                              << [lon |-> "1", lat |-> "0", ele |-> <<"30", "31">>],
                                 [lon |-> "3", lat |-> "0", ele |-> <<"40">>] >> >>],
                 [names |-> <<"B">>,
                  segs |-> << << [lon |-> "2", lat |-> "0", ele |-> <<"5">>] >> >>] >>]

DocClose ==
    [wellFormed |-> TRUE,
     trks |-> << [names |-> <<"C">>,
                  segs |-> << << [lon |-> "0", lat |-> "0", ele |-> <<"50">>],
                                 [lon |-> "1", lat |-> "0", ele |-> <<"50">>] >> >>] >>]

DocOnePoint ==
    [wellFormed |-> TRUE,
     trks |-> << [names |-> <<"D">>,
                  segs |-> << << [lon |-> "0", lat |-> "0", ele |-> <<"50">>] >> >>] >>]

DocNoTrack == [wellFormed |-> TRUE, trks |-> <<>>]

DocMalformed == [wellFormed |-> FALSE, trks |-> <<>>]

Docs == {DocTwoPoints, DocZigZag, DocClose, DocOnePoint, DocNoTrack,
         DocMalformed}

\* the form as the page loads: override off, constant 100, path width 10
\* on a 30 x 30 bed, map shape, "GOOGLE" projection, no markers, automatic
\* smoothing
InitialDom ==
    [zoverride |-> FALSE, zconstant |-> 100, zcut |-> FALSE,
     pathWidth |-> 10, vertical |-> 1, width |-> 30, depth |-> 30,
     base |-> 1, regionfit |-> FALSE,
     eastMin |-> 0, eastMax |-> 0, northMin |-> 0, northMax |-> 0,
     shape |-> SHAPE_MAP, projtype |-> PROJ_GOOGLE, projection |-> "",
     marker |-> 0, markerInterval |-> 1, smooth |-> 0, mindist |-> 2]

\* settings a user makes in one go: shape, projection radio and text,
\* marker radio (3 = custom interval), smoothing radio
Presets ==
    { [shape |-> SHAPE_MAP, projtype |-> PROJ_GOOGLE, projection |-> "",
       marker |-> 0, smooth |-> 0],
      [shape |-> SHAPE_LINEAR, projtype |-> PROJ_GOOGLE, projection |-> "",
       marker |-> 3, smooth |-> 1],
      [shape |-> SHAPE_MAP, projtype |-> PROJ_CUSTOM, projection |-> "bogus",
       marker |-> 0, smooth |-> 0],
      [shape |-> SHAPE_MAP, projtype |-> PROJ_UTM, projection |-> "",
       marker |-> 0, smooth |-> 1],
      [shape |-> SHAPE_MAP, projtype |-> PROJ_CUSTOM, projection |-> "bogus",
       marker |-> 3, smooth |-> 1] }

\* parseFloat(value) || fallback
OrElse(v, fallback) == IF v = 0 THEN fallback ELSE v

\* getMarkerInterval(type)
getMarkerInterval(type) ==
    IF type = 0 THEN 0
    ELSE IF type = 1 THEN 1000
    ELSE IF type = 2 THEN 1609
    ELSE OrElse(dom.markerInterval, 1000)

\* the options object collectOptions builds from the form
formOptions ==
    [buffer |-> dom.pathWidth \div 2,
     vertical |-> dom.vertical,
     bedx |-> dom.width,
     bedy |-> dom.depth,
     base |-> dom.base,
     zcut |-> IF dom.zoverride THEN FALSE ELSE dom.zcut,
     zoverride |-> dom.zoverride,
     zconstant |-> OrElse(dom.zconstant, 100),
     regionfit |-> dom.regionfit,
     region_minx |-> OrElse(dom.eastMin, 0),
     region_maxx |-> OrElse(dom.eastMax, 0),
     region_miny |-> OrElse(dom.northMin, 0),
     region_maxy |-> OrElse(dom.northMax, 0),
     shapetype |-> dom.shape,
     projtype |-> dom.projtype,
     projection |-> dom.projection,
     markerInterval |-> getMarkerInterval(dom.marker),
     smoothtype |-> dom.smooth,
     smoothspan |-> OrElse(dom.mindist, 10)]

\* the validation of collectOptions passes (buffer is half the path width)
optionsValid(o) ==
    /\ o.vertical >= 1
    /\ o.bedx >= 20
    /\ o.bedy >= 20
    /\ 2 * o.buffer >= 1
    /\ ~(o.projtype = 1 /\ o.projection = "")

\* collectOptions()
collectOptions == IF optionsValid(formOptions) THEN formOptions ELSE Null

\* the user flips the elevation-override switch
ToggleOverride ==
    /\ genpc = "idle"
    /\ dom' = [dom EXCEPT !.zoverride = ~dom.zoverride]
    /\ UNCHANGED <<btnGenerateDisabled, gpxData, gpxInfo, modelResult, modelTrack, timers,
                   message>>
    /\ UNCHANGED <<pathVars, stlVars, fnVars, scanVars, genVars>>

\* the user sets shape, projection, markers and smoothing
SetControls ==
    /\ genpc = "idle"
    /\ \E pr \in Presets :
         dom' = [dom EXCEPT !.shape = pr.shape, !.projtype = pr.projtype,
                            !.projection = pr.projection,
                            !.marker = pr.marker, !.smooth = pr.smooth]
    /\ dom' # dom
    /\ UNCHANGED <<btnGenerateDisabled, gpxData, gpxInfo, modelResult, modelTrack, timers,
                   message>>
    /\ UNCHANGED <<pathVars, stlVars, fnVars, scanVars, genVars>>

\* processGPXText(text) on a text that parses to a track
LoadFile ==
    /\ genpc = "idle"
    /\ \E doc \in Docs :
         LET result == parse(doc, dom.zoverride, OrElse(dom.zconstant, 100))
         IN /\ result.error = ""
            /\ gpxData' = result.points
            /\ gpxInfo' = result.info
            /\ message' = "loaded"
    /\ btnGenerateDisabled' = FALSE
    /\ UNCHANGED <<dom, modelResult, modelTrack, timers>>
    /\ UNCHANGED <<pathVars, stlVars, fnVars, scanVars, genVars>>

\* processGPXText(text) on a text the parser rejects
LoadFileError ==
    /\ genpc = "idle"
    /\ \E doc \in Docs :
         LET result == parse(doc, dom.zoverride, OrElse(dom.zconstant, 100))
         IN /\ result.error # ""
            /\ message' = result.error
    /\ gpxData' = Null
    /\ gpxInfo' = Null
    /\ btnGenerateDisabled' = TRUE
    /\ UNCHANGED <<dom, modelResult, modelTrack, timers>>
    /\ UNCHANGED <<pathVars, stlVars, fnVars, scanVars, genVars>>

\* generateModel() on a click of the enabled button, with a track loaded
\* and valid options: the button is disabled and the generation deferred
ClickGenerate ==
    /\ genpc = "idle"
    /\ ~btnGenerateDisabled
    /\ gpxData # Null
    /\ collectOptions # Null
    /\ Len(timers) < MaxPending
    /\ message' = ""
    /\ btnGenerateDisabled' = TRUE
    /\ timers' = Append(timers, collectOptions)
    /\ progress' = <<0>>
    /\ UNCHANGED <<dom, gpxData, gpxInfo, modelResult, modelTrack>>
    /\ UNCHANGED <<projectedPoints, bounds, offset, scale, genResult, thrown,
                   genpc>>
    /\ UNCHANGED <<pathVars, stlVars, fnVars, scanVars>>

\* generateModel() with no track loaded: a message, nothing else
ClickGenerateNoTrack ==
    /\ genpc = "idle"
    /\ ~btnGenerateDisabled
    /\ gpxData = Null
    /\ message' = "Carregue um arquivo GPX primeiro."
    /\ UNCHANGED <<dom, btnGenerateDisabled, gpxData, gpxInfo, modelResult, modelTrack,
                   timers>>
    /\ UNCHANGED <<pathVars, stlVars, fnVars, scanVars, genVars>>

\* Math.round of thousandths, to whole units
RoundMilli(v) == (v + 500) \div 1000

\* the timer callback ends: its options object and the context of the
\* generate call become unreachable; the PointProjector singleton stays
ContextDropped ==
    /\ pts' = <<>>
    /\ options' = BaseOptions
    /\ optionsAtCall' = BaseOptions
    /\ scanI' = 0
    /\ totaldist' = 0
    /\ cd' = 0
    /\ md' = 0
    /\ rawpointcd' = <<>>
    /\ markerObjs' = <<>>
    /\ markers' = <<>>
    /\ geoBounds' = <<>>
    /\ mindist' = 0
    /\ filterCur' = 0
    /\ filterPre' = 0
    /\ filteredPts' = <<>>
    /\ filteredDst' = <<>>
    /\ filterTotal' = 0
    /\ keptIdx' = <<>>
    /\ scanpc' = "idle"
    /\ outputPoints' = <<>>
    /\ buffer' = 0
    /\ pathI' = 0
    /\ pathS' = 0
    /\ lastAngle' = 0
    /\ vertices' = <<>>
    /\ faces' = <<>>
    /\ accepted' = <<>>
    /\ pathpc' = "idle"
    /\ projectedPoints' = <<>>
    /\ bounds' = Null
    /\ offset' = Null
    /\ scale' = Null
    /\ genResult' = Null
    /\ thrown' = ""
    /\ UNCHANGED <<projector, stlVars, fnVars>>

\* the timer callback after generate returned: the result is stored and
\* shown, the region fields are filled in, the button is enabled
AppGenerated ==
    /\ genpc = "returned"
    /\ modelResult' = genResult
    /\ modelTrack' = pts
    /\ progress' = Append(progress, 100)
    /\ dom' = IF ~options.regionfit
              THEN [dom EXCEPT !.eastMin = RoundMilli(genResult.bounds.minx),
                               !.eastMax = RoundMilli(genResult.bounds.maxx),
                               !.northMin = RoundMilli(genResult.bounds.miny),
                               !.northMax = RoundMilli(genResult.bounds.maxy)]
              ELSE dom
    /\ message' = "generated"
    /\ btnGenerateDisabled' = FALSE
    /\ genpc' = "idle"
    /\ ContextDropped
    /\ UNCHANGED <<gpxData, gpxInfo, timers>>

\* the timer callback after generate threw: the error is shown, the
\* button is enabled
AppGenerateFailed ==
    /\ genpc = "threw"
    /\ message' = "Erro ao gerar modelo: " \o thrown
    /\ btnGenerateDisabled' = FALSE
    /\ genpc' = "idle"
    /\ ContextDropped
    /\ UNCHANGED <<dom, gpxData, gpxInfo, modelResult, modelTrack, timers, progress>>

GenIdle ==
    /\ projectedPoints = <<>>
    /\ bounds = Null
    /\ offset = Null
    /\ scale = Null
    /\ progress = <<>>
    /\ genResult = Null
    /\ thrown = ""
    /\ genpc = "idle"

AppIdle ==
    /\ dom = InitialDom
    /\ btnGenerateDisabled = TRUE
    /\ gpxData = Null
    /\ gpxInfo = Null
    /\ modelResult = Null
    /\ modelTrack = Null
    /\ timers = <<>>
    /\ message = ""

\* ------------------------------------------------------------------------
\* Specifications
\* ------------------------------------------------------------------------
\* the path builder on every track
Init == PathInit /\ STLIdle /\ ScanIdle /\ GenIdle /\ AppIdle /\ FnIdle

Next == PathThrow \/ PathSkip \/ PathAccept \/ PathFinish

Spec == Init /\ [][Next]_vars

\* the path builder followed by the STL emitter
NextSTL ==
    \/ PathSkip \/ PathAccept \/ PathFinish
    \/ STLStart \/ STLRecord \/ STLReturn

InitSTL == STLInit /\ STLIdle /\ ScanIdle /\ GenIdle /\ AppIdle /\ FnIdle

SpecSTL == InitSTL /\ [][NextSTL]_vars

\* the track scanner followed by the distance filter
InitScan == ScanInit /\ PathIdle /\ STLIdle /\ GenIdle /\ AppIdle /\ FnIdle

NextScan ==
    \/ ScanPoint \/ ScanMarker
    \/ ScanProjection \/ ScanProjectionThrow \/ ScanSmooth
    \/ FilterKeep \/ FilterDrop \/ FilterFinish

SpecScan == InitScan /\ [][NextScan]_vars

\* the application: loading, settings, and deferred generations that run
\* the whole pipeline
InitApp == PathIdle /\ STLIdle /\ ScanIdle /\ GenIdle /\ AppIdle /\ FnIdle

NextApp ==
    \/ ToggleOverride \/ SetControls \/ LoadFile \/ LoadFileError
    \/ ClickGenerate \/ ClickGenerateNoTrack
    \/ GenStart \/ GenStartNull
    \/ ScanPoint \/ ScanMarker
    \/ ScanProjection \/ ScanProjectionThrow \/ ScanSmooth
    \/ FilterKeep \/ FilterDrop \/ FilterFinish
    \/ GenProject \/ GenFit
    \/ PathThrow \/ PathSkip \/ PathAccept \/ PathFinish
    \/ GenReturn \/ GenThrow
    \/ AppGenerated \/ AppGenerateFailed

SpecApp == InitApp /\ [][NextApp]_vars

\* tracks handed to generate by a direct caller: two points, a zigzag of
\* four, and two points one unit apart
GenerateTracks ==
    { << <<0, 0, 50>>, <<3, 0, 60>> >>,
      << <<0, 0, 20>>, <<3, 0, 100>>, <<1, 0, 30>>, <<3, 0, 40>> >>,
      << <<0, 0, 50>>, <<1, 0, 50>> >> }

\* the region rectangle of a direct caller, in metres
RegionOptions ==
    [BaseOptions EXCEPT !.regionfit = TRUE,
                        !.region_minx = 0 - 1, !.region_maxx = 5,
                        !.region_miny = 0 - 2, !.region_maxy = 2]

\* options handed to generate by a direct caller, which collectOptions
\* need not have built: in range, and out of range in one field each
GenerateOptions ==
    { BaseOptions,
      [BaseOptions EXCEPT !.shapetype = SHAPE_LINEAR, !.markerInterval = 1,
                          !.smoothtype = 1, !.smoothspan = 2],
      [BaseOptions EXCEPT !.projtype = PROJ_UTM],
      RegionOptions,
      [RegionOptions EXCEPT !.zcut = TRUE],
      [BaseOptions EXCEPT !.vertical = 0],
      [BaseOptions EXCEPT !.bedx = 19],
      [BaseOptions EXCEPT !.buffer = 0],
      [BaseOptions EXCEPT !.projtype = PROJ_CUSTOM],
      [BaseOptions EXCEPT !.projtype = PROJ_CUSTOM, !.projection = "bogus",
                          !.markerInterval = 1] }

\* a track that ends at the antipode of its start: its last segment is one
\* on which distVincenty does not converge
AntipodalTracks ==
    { << <<0, 0, 50>>, <<3, 0, 60>>, <<HalfEquator, 0, 70>> >> }

\* options under which the distance filter drops the far point: map
\* shape, manual smoothing
ManualSmoothOptions ==
    { [BaseOptions EXCEPT !.smoothtype = 1, !.smoothspan = 2] }

\* generate(pts, options, onProgress) has been entered by a direct caller:
\* onProgress(10) is made and _scanPoints starts
InitGenerate ==
    /\ \/ pts \in GenerateTracks /\ options \in GenerateOptions
       \/ pts \in AntipodalTracks /\ options \in ManualSmoothOptions
    /\ optionsAtCall = options
    /\ projector = "none"
    /\ ScanStart
    /\ projectedPoints = <<>>
    /\ bounds = Null
    /\ offset = Null
    /\ scale = Null
    /\ progress = <<10>>
    /\ genResult = Null
    /\ thrown = ""
    /\ genpc = "scan"
    /\ PathIdle /\ STLIdle /\ AppIdle /\ FnIdle

NextGenerate ==
    \/ ScanPoint \/ ScanMarker
    \/ ScanProjection \/ ScanProjectionThrow \/ ScanSmooth
    \/ FilterKeep \/ FilterDrop \/ FilterFinish
    \/ GenProject \/ GenFit
    \/ PathThrow \/ PathSkip \/ PathAccept \/ PathFinish
    \/ GenReturn \/ GenThrow

SpecGenerate == InitGenerate /\ [][NextGenerate]_vars

\* ------------------------------------------------------------------------
\* Specification of GPXParser.parse called on a document
\* ------------------------------------------------------------------------
\* most <trkseg> elements of the first track
MaxSegs == 2

\* most <trkpt> elements of one <trkseg>
MaxSegPts == 2

\* sequences over S of length at most n
SeqsUpTo(S, n) == UNION {[1..k -> S] : k \in 0..n}

\* <trkpt> elements: one without <ele>, one with two <ele> children
Trkpts ==
    { [lon |-> "0", lat |-> "0", ele |-> <<>>],
      [lon |-> "1", lat |-> "0", ele |-> <<"7", "8">>] }

\* the first <trk> of a document: with or without <name>, any segments
FirstTracks ==
    { [names |-> nm, segs |-> sg] :
        nm \in {<<>>, <<"A">>},
        sg \in SeqsUpTo(SeqsUpTo(Trkpts, MaxSegPts), MaxSegs) }

\* a second <trk>, of two points found in no first track
OtherTrack ==
    [names |-> <<"B">>,
     segs |-> << << [lon |-> "9", lat |-> "0", ele |-> <<"5">>],
                    [lon |-> "9", lat |-> "1", ele |-> <<>>] >> >>]

\* documents: well-formed or with a parser error, of no, one or two tracks
ParseDocs ==
    { [wellFormed |-> w, trks |-> t] :
        w \in BOOLEAN,
        t \in {<<>>} \cup {<<trk>> : trk \in FirstTracks}
                     \cup {<<trk, OtherTrack>> : trk \in FirstTracks} }

\* defaultElevation as callers give it: the default 1, or another value
DefaultElevations == {1, 100}

\* parse(gpxText, forceElevation, defaultElevation) has been called
InitParse ==
    /\ fnName = "parse"
    /\ fnArgs \in [doc : ParseDocs, forceElevation : BOOLEAN,
                    defaultElevation : DefaultElevations]
    /\ fnLocals = <<>>
    /\ fnResult = Null
    /\ fnpc = "called"
    /\ PathIdle /\ STLIdle /\ ScanIdle /\ GenIdle /\ AppIdle

\* parse runs to one of its returns
ParseReturn ==
    /\ fnName = "parse"
    /\ fnpc = "called"
    /\ fnResult' = parse(fnArgs.doc, fnArgs.forceElevation,
                         fnArgs.defaultElevation)
    /\ fnpc' = "returned"
    /\ UNCHANGED <<fnName, fnArgs, fnLocals>>
    /\ UNCHANGED <<pathVars, stlVars, scanVars, genVars, appVars>>

NextParse == ParseReturn

SpecParse == InitParse /\ [][NextParse]_vars

\* ------------------------------------------------------------------------
\* Specification of the UTM projection chosen for a track
\* ------------------------------------------------------------------------
\* raw points [lon, lat] in whole degrees: on both sides of zone borders,
\* of the equator and of the ends of the longitude range
DegreePoints ==
    { <<lon, lat>> : lon \in {0 - 180, 0 - 61, 0 - 60, 0, 179, 180},
                     lat \in {0 - 30, 0 - 1, 0, 1} }

\* tracks of one or two raw points
DegreeTracks ==
    {<<p>> : p \in DegreePoints}
        \cup {<<p, q>> : p \in DegreePoints, q \in DegreePoints}

\* _scanPoints has been entered with projtype PROJ_UTM: fnLocals holds
\* minLon, maxLon, minLat, maxLat and the index of the next raw point
InitUTM ==
    /\ fnName = "UTM.proj"
    /\ fnArgs \in DegreeTracks
    /\ fnLocals = [geo |-> <<fnArgs[1][1], fnArgs[1][1],
                             fnArgs[1][2], fnArgs[1][2]>>,
                   i |-> 2]
    /\ fnResult = Null
    /\ fnpc = "loop"
    /\ PathIdle /\ STLIdle /\ ScanIdle /\ GenIdle /\ AppIdle

\* one iteration of the scan loop, by what it does to the bounds
UTMScanPoint ==
    /\ fnName = "UTM.proj"
    /\ fnpc = "loop"
    /\ fnLocals.i <= Len(fnArgs)
    /\ fnLocals' = [geo |-> extendGeo(fnLocals.geo, fnArgs[fnLocals.i]),
                    i |-> fnLocals.i + 1]
    /\ UNCHANGED <<fnName, fnArgs, fnResult, fnpc>>
    /\ UNCHANGED <<pathVars, stlVars, scanVars, genVars, appVars>>

\* after the loop: UTM.proj at the midpoint of the bounds; degrees are
\* two half degrees, so the sums are the midpoints in half degrees
UTMConfigure ==
    /\ fnName = "UTM.proj"
    /\ fnpc = "loop"
    /\ fnLocals.i > Len(fnArgs)
    /\ fnResult' = UTMproj(fnLocals.geo[3] + fnLocals.geo[4],
                           fnLocals.geo[1] + fnLocals.geo[2])
    /\ fnpc' = "returned"
    /\ UNCHANGED <<fnName, fnArgs, fnLocals>>
    /\ UNCHANGED <<pathVars, stlVars, scanVars, genVars, appVars>>

NextUTM == UTMScanPoint \/ UTMConfigure

SpecUTM == InitUTM /\ [][NextUTM]_vars

\* ------------------------------------------------------------------------
\* Specification of the lambda iteration of distVincenty
\* ------------------------------------------------------------------------
\* let iterLimit = 100
IterLimit == 100

\* coordinates handed to distVincenty: equal, near, nearly antipodal and
\* antipodal longitudes, and the NaN that parseFloat makes of a missing
\* attribute
VincentyLons == {0, 3, AntipodalFrom, HalfEquator, NaN}

VincentyLats == {0, NaN}

\* what the iteration does on the arguments <<lat1, lon1, lat2, lon2>>:
\* with a NaN among them lambda is NaN; on one point sinSigma is 0; on
\* nearly antipodal points lambda never settles; on others it settles
\* within the limit, after a number of rounds that is left open
iterationOn(args) ==
    IF \E k \in 1..4 : args[k] = NaN THEN "nan"
    ELSE IF args[1] = args[3] /\ args[2] = args[4] THEN "coincident"
    ELSE IF distVincenty(args[1], args[2], args[3], args[4]) = NaN
    THEN "diverges"
    ELSE "converges"

\* iterLimit-- > 0: the test made on the value before the decrement
postDecrementPasses(iterLimit) == iterLimit > 0

\* --iterLimit > 0
decrementPasses(iterLimit) == iterLimit - 1 > 0

\* distVincenty(lat1, lon1, lat2, lon2) has been called: lambda = L,
\* iterLimit = 100, and the do-while is entered; runs counts the bodies
\* executed and settled records the last |lambda - lambdaP| <= 1e-12
InitVincenty ==
    /\ fnName = "distVincenty"
    /\ fnArgs \in {<<lat1, lon1, lat2, lon2>> :
                       lat1 \in VincentyLats, lon1 \in VincentyLons,
                       lat2 \in VincentyLats, lon2 \in VincentyLons}
    /\ fnLocals = [iterLimit |-> IterLimit, runs |-> 0, settled |-> FALSE]
    /\ fnResult = Null
    /\ fnpc = "body"
    /\ PathIdle /\ STLIdle /\ ScanIdle /\ GenIdle /\ AppIdle

\* a body that finds sinSigma === 0: return 0
VincentyCoincident ==
    /\ fnName = "distVincenty"
    /\ fnpc = "body"
    /\ iterationOn(fnArgs) = "coincident"
    /\ fnLocals' = [fnLocals EXCEPT !.runs = @ + 1]
    /\ fnResult' = 0
    /\ fnpc' = "returned"
    /\ UNCHANGED <<fnName, fnArgs>>
    /\ UNCHANGED <<pathVars, stlVars, scanVars, genVars, appVars>>

\* a body after which |lambda - lambdaP| > 1e-12 and --iterLimit > 0: the
\* loop goes round; an iteration that settles within the limit is not
\* unsettled in its last round
VincentyRepeat ==
    /\ fnName = "distVincenty"
    /\ fnpc = "body"
    /\ \/ iterationOn(fnArgs) = "diverges"
       \/ iterationOn(fnArgs) = "converges" /\ fnLocals.runs + 1 < IterLimit
    /\ decrementPasses(fnLocals.iterLimit)
    /\ fnLocals' = [fnLocals EXCEPT !.runs = @ + 1,
                                    !.iterLimit = @ - 1]
    /\ UNCHANGED <<fnName, fnArgs, fnResult, fnpc>>
    /\ UNCHANGED <<pathVars, stlVars, scanVars, genVars, appVars>>

\* a body after which |lambda - lambdaP| > 1e-12 and --iterLimit > 0
\* fails: the loop is left with iterLimit 0 and NaN is returned
VincentyExhausted ==
    /\ fnName = "distVincenty"
    /\ fnpc = "body"
    /\ iterationOn(fnArgs) = "diverges"
    /\ ~decrementPasses(fnLocals.iterLimit)
    /\ fnLocals' = [fnLocals EXCEPT !.runs = @ + 1,
                                    !.iterLimit = @ - 1]
    /\ fnResult' = IF fnLocals'.iterLimit = 0 THEN NaN
                   ELSE distVincenty(fnArgs[1], fnArgs[2],
                                     fnArgs[3], fnArgs[4])
    /\ fnpc' = "returned"
    /\ UNCHANGED <<fnName, fnArgs>>
    /\ UNCHANGED <<pathVars, stlVars, scanVars, genVars, appVars>>

\* a body after which |lambda - lambdaP| <= 1e-12: the && is cut short,
\* iterLimit keeps its value, and the distance is computed
VincentySettled ==
    /\ fnName = "distVincenty"
    /\ fnpc = "body"
    /\ iterationOn(fnArgs) = "converges"
    /\ fnLocals' = [fnLocals EXCEPT !.runs = @ + 1, !.settled = TRUE]
    /\ fnResult' = IF fnLocals'.iterLimit = 0 THEN NaN
                   ELSE distVincenty(fnArgs[1], fnArgs[2],
                                     fnArgs[3], fnArgs[4])
    /\ fnpc' = "returned"
    /\ UNCHANGED <<fnName, fnArgs>>
    /\ UNCHANGED <<pathVars, stlVars, scanVars, genVars, appVars>>

\* a body that makes lambda NaN: Math.abs(NaN) > 1e-12 is false, the &&
\* is cut short, iterLimit keeps its value, and b * A * (sigma -
\* deltaSigma) is NaN
VincentyNaN ==
    /\ fnName = "distVincenty"
    /\ fnpc = "body"
    /\ iterationOn(fnArgs) = "nan"
    /\ fnLocals' = [fnLocals EXCEPT !.runs = @ + 1]
    /\ fnResult' = NaN
    /\ fnpc' = "returned"
    /\ UNCHANGED <<fnName, fnArgs>>
    /\ UNCHANGED <<pathVars, stlVars, scanVars, genVars, appVars>>

NextVincenty ==
    \/ VincentyCoincident \/ VincentyRepeat \/ VincentyExhausted
    \/ VincentySettled \/ VincentyNaN

\* the function runs: a call in its loop takes its next step
SpecVincenty ==
    InitVincenty /\ [][NextVincenty]_vars /\ WF_vars(NextVincenty)

\* ------------------------------------------------------------------------
\* Properties of the path builder
\* ------------------------------------------------------------------------
SkippedSome == Len(accepted) < pathI

\* C1: every index of every emitted triangle is >= 0 and < the number of
\* vertices, whatever stations the acute-run collapse skipped
C1_IndicesInRange ==
    \A k \in 1..Len(faces) : \A j \in 1..3 :
        faces[k][j] >= 0 /\ faces[k][j] < Len(vertices)

C1_Witness == pathpc = "done" /\ SkippedSome /\ Len(faces) > 4

\* directed edges of the triangle list
EdgeAt(k, j) == <<faces[k][j], faces[k][(j % 3) + 1]>>

Edges == {EdgeAt(kj[1], kj[2]) : kj \in (1..Len(faces)) \X (1..3)}

\* C2: the finished mesh is closed and consistently wound: every directed
\* edge occurs in exactly one triangle (the 3 * |faces| edge slots are
\* pairwise distinct) and its reverse occurs in exactly one triangle too
C2_ClosedMesh ==
    (pathpc = "done" /\ pathS >= 2) =>
        /\ Cardinality(Edges) = 3 * Len(faces)
        /\ \A e \in Edges : e[1] # e[2] /\ <<e[2], e[1]>> \in Edges

C2_Witness == pathpc = "done" /\ pathS >= 3 /\ SkippedSome

\* C3: four vertices per accepted station, in the order lower-left,
\* lower-right, upper-left, upper-right; lower pair at z = 0, upper pair at
\* the station's fitted z with the x, y of the lower pair
C3_VertexGroups ==
    /\ Len(vertices) = 4 * Len(accepted)
    /\ \A k \in 1..Len(accepted) :
        LET b == 4 * (k - 1)
            st == accepted[k]
            lr == jointPoints(st.i, st.rel, st.joint)
            z == OP(st.i)[3]
        IN /\ vertices[b + 1] = <<lr[1][1], lr[1][2], 0>>
           /\ vertices[b + 2] = <<lr[2][1], lr[2][2], 0>>
           /\ vertices[b + 3] = <<vertices[b + 1][1], vertices[b + 1][2], z>>
           /\ vertices[b + 4] = <<vertices[b + 2][1], vertices[b + 2][2], z>>

C3_Witness == pathpc = "done" /\ SkippedSome /\ Len(vertices) = 12

\* triangles of the cap on quad q (vertices 4q..4q+3 only)
IsCapOf(f, q) == \A j \in 1..3 : f[j] \in (4 * q)..(4 * q + 3)

\* triangles joining quad k-1 to quad k
IsBridgeOf(f, k) ==
    /\ \A j \in 1..3 : f[j] \in (4 * (k - 1))..(4 * k + 3)
    /\ \E j \in 1..3 : f[j] < 4 * k
    /\ \E j \in 1..3 : f[j] >= 4 * k

\* C4: with s >= 2 accepted stations the triangle list has 2 + 2 + 8(s-1)
\* entries: 2 start-cap triangles, then 8 bridge triangles per accepted
\* station after the first, then 2 end-cap triangles
C4_TriangleCount ==
    (pathpc = "done" /\ pathS >= 2) =>
        /\ Len(faces) = 2 + 2 + 8 * (pathS - 1)
        /\ \A k \in 1..2 : IsCapOf(faces[k], 0)
        /\ \A q \in 1..(pathS - 1) : \A k \in (8 * q - 5)..(8 * q + 2) :
               IsBridgeOf(faces[k], q)
        /\ \A k \in (Len(faces) - 1)..Len(faces) :
               IsCapOf(faces[k], pathS - 1)

C4_Witness == pathpc = "done" /\ pathS = 3 /\ Len(faces) = 20

\* three stations whose second segment heads (nearly) opposite to the first
Reversal3 ==
    /\ NumPoints = 3
    /\ Abs(vectorAngle(OP(1), OP(2)) - vectorAngle(OP(0), OP(1)))
           \in {Pi - 2, Pi, Pi + 2}

\* four stations with a reversal at station 1 and another at station 2
ZigZag4 ==
    /\ NumPoints = 4
    /\ Abs(vectorAngle(OP(1), OP(2)) - vectorAngle(OP(0), OP(1)))
           \in {Pi - 2, Pi, Pi + 2}
    /\ Abs(vectorAngle(OP(2), OP(3)) - vectorAngle(OP(1), OP(2)))
           \in {Pi - 2, Pi, Pi + 2}

\* C8 as stated: on a three-station reversal the middle station is
\* dropped, leaving 8 vertices
C8_MiddleDropped ==
    (pathpc = "done" /\ Reversal3) => Len(vertices) = 8

\* C8 amended: on a three-station reversal the middle station is kept (12
\* vertices); station 1 is dropped when station 2 reverses as well
C8_MiddleKept ==
    /\ (pathpc = "done" /\ Reversal3) =>
           (Len(vertices) = 12 /\ \E k \in 1..Len(accepted) : accepted[k].i = 1)
    /\ (pathpc = "done" /\ ZigZag4) =>
           (Len(vertices) = 12 /\ \A k \in 1..Len(accepted) : accepted[k].i # 1)

C8_Witness == pathpc = "done" /\ Reversal3 /\ Len(vertices) = 12

\* ------------------------------------------------------------------------
\* Properties of the STL emitter
\* ------------------------------------------------------------------------
\* the unsigned little-endian number stored in w bytes at offset off
ReadUintLE(buf, off, w) ==
    LET RECURSIVE Rd(_)
        Rd(b) == IF b > w THEN 0 ELSE buf[off + b] * (256 ^ (b - 1)) + Rd(b + 1)
    IN Rd(1)

\* C5: the returned buffer has 84 + 50 N bytes, holds N little-endian at
\* offset 80, record k starts at 84 + 50 k and carries face k, every
\* attribute field is 0, and the final write offset is the buffer length;
\* no write ever falls outside the buffer
C5_STLLayout ==
    /\ stlpc # "threw"
    /\ stlpc = "done" =>
        LET N == Len(rawFaces)
        IN /\ Len(stlBuffer) = 84 + 50 * N
           /\ ReadUintLE(stlBuffer, 80, 4) = N
           /\ Len(stlStarts) = N
           /\ \A k \in 0..(N - 1) :
                /\ At(stlStarts, k) = 84 + 50 * k
                /\ SubSeq(stlBuffer, 84 + 50 * k + 1, 84 + 50 * k + 48)
                       = FloatBytes(RecordFloats(At(rawFaces, k)), 1)
                /\ ReadUintLE(stlBuffer, 84 + 50 * k + 48, 2) = 0
           /\ stlOffset = Len(stlBuffer)

C5_Witness == stlpc = "done" /\ Len(rawFaces) = 20 /\ stlOffset = 1084

\* ------------------------------------------------------------------------
\* Properties of the track scanner and the distance filter
\* ------------------------------------------------------------------------
\* the scan loop has run over every raw point
ScanLoopOver == scanpc # "idle" /\ scanI = Len(pts)

\* C7: when the marker interval is L / N for the total distance L, the
\* scan places exactly N markers, the k-th at cumulative distance k * L / N
C7_ExactlyNMarkers ==
    (/\ ScanLoopOver
     /\ options.markerInterval > 0
     /\ totaldist > 0
     /\ totaldist % options.markerInterval = 0) =>
        /\ Len(markerObjs) = totaldist \div options.markerInterval
        /\ \A k \in 1..Len(markerObjs) :
               markerObjs[k].pos = k * options.markerInterval

\* raw indices kept by the filter
KeptSet == {keptIdx[k] : k \in 1..Len(keptIdx)}

\* the most recently kept raw index before raw index cur
LastKeptBefore(cur) ==
    CHOOSE m \in KeptSet : m < cur /\ \A o \in KeptSet : o < cur => o <= m

\* C9: the filter keeps raw point 0, and raw point cur > 0 exactly when
\* its distance to the most recently kept point is >= mindist or mindist
\* is 0; the kept points are a subsequence of the raw points, every
\* recorded distance is the kept-to-kept distance and >= mindist, and
\* smoothTotal is their sum
C9_DistanceFilter ==
    scanpc = "done" =>
        /\ Len(ll) >= 1 /\ keptIdx[1] = 0
        /\ Len(keptIdx) = Len(ll)
        /\ \A k \in 1..Len(ll) : ll[k] = Pt(keptIdx[k])
        /\ \A k \in 1..(Len(ll) - 1) : keptIdx[k] < keptIdx[k + 1]
        /\ \A cur \in 1..(Len(pts) - 1) :
               cur \in KeptSet <=>
                   \/ mindist = 0
                   \/ Abs(Pt(cur)[1] - Pt(LastKeptBefore(cur))[1]) >= mindist
        /\ Len(d) = Len(ll) - 1
        /\ \A k \in 1..Len(d) :
               d[k] = Abs(ll[k + 1][1] - ll[k][1]) /\ d[k] >= mindist
        /\ smoothTotal = SumSeq(d, 1)

\* a point was dropped and a later one kept
C9_Witness ==
    /\ scanpc = "done"
    /\ mindist > 0
    /\ \E k \in 1..(Len(keptIdx) - 1) : keptIdx[k + 1] > keptIdx[k] + 1

\* ------------------------------------------------------------------------
\* Properties of generate within the application
\* ------------------------------------------------------------------------
\* generate has returned or thrown and its caller has not resumed
GenerateOver == genpc \in {"returned", "threw"}

\* C6: after generate returns or throws, the options object of the caller
\* (its projection field included) and the points array of the caller hold
\* the values they held when generate was called
C6_InputsNotMutated ==
    GenerateOver => (options = optionsAtCall /\ pts = gpxData)

\* C10: when options.zoverride is true, the z of every projected point,
\* bounds.minz and bounds.maxz are options.zconstant, and the z of every
\* fitted point is the fit of options.zconstant
C10_OverrideForcesElevation ==
    (genpc = "returned" /\ options.zoverride) =>
        /\ \A k \in 1..Len(projectedPoints) :
               projectedPoints[k][3] = options.zconstant
        /\ bounds.minz = options.zconstant
        /\ bounds.maxz = options.zconstant
        /\ \A k \in 1..Len(outputPoints) :
               outputPoints[k][3] = fitZ(options.zconstant, calculateZScale)

\* the initialisation of the projection has failed in the current call
ProjectionFailed == scanpc = "threw"

\* the progress reported by the current call of generate: the reports from
\* its onProgress(10) on (earlier reports are those of earlier calls)
CallProgress ==
    LET tens == {k \in 1..Len(progress) : progress[k] = 10}
    IN IF tens = {} THEN <<>>
       ELSE SubSeq(progress,
                   CHOOSE k \in tens : \A j \in tens : j <= k,
                   Len(progress))

\* C11: when PointProjector.init fails, generate throws the error
\* "projection not recognised", returns nothing, has reported no progress
\* of 30 or more, and has projected no point and no marker
C11_ProjectionFailure ==
    ProjectionFailed =>
        /\ projectedPoints = <<>>
        /\ markers = <<>>
        /\ genResult = Null
        /\ genpc \in {"scan", "threw"}
        /\ CallProgress = <<10>>
        /\ genpc = "threw" => thrown = "Projecao de mapa nao reconhecida."

\* the failure has left generate, on a track that had markers to project
C11_Witness ==
    /\ ProjectionFailed
    /\ genpc = "threw"
    /\ Len(markerObjs) > 0
    /\ thrown = ProjectionError

\* ------------------------------------------------------------------------
\* Properties of generate called directly
\* ------------------------------------------------------------------------
\* C12: a generate call whose options are out of range (vertical < 1,
\* bedx < 20, bedy < 20, buffer < 0.5, or an empty custom projection with
\* projtype 1) ends with an InvalidOption error and returns no artifact
C12_InvalidOptionRejected ==
    (GenerateOver /\ ~optionsValid(optionsAtCall)) =>
        /\ genpc = "threw"
        /\ thrown = "InvalidOption"
        /\ genResult = Null

\* C13: generate never returns an artifact whose total distance or
\* smoothed total was computed from a NaN segment distance: a NaN of
\* distVincenty ends in an error or is replaced
C13_NaNDistanceNotSwallowed ==
    genpc = "returned" =>
        /\ genResult.distance # NaN
        /\ totaldist # NaN
        /\ smoothTotal # NaN

\* the region rectangle of the options, in thousandths
RegionWidth == (options.region_maxx - options.region_minx) * 1000

RegionHeight == (options.region_maxy - options.region_miny) * 1000

\* C18: with regionfit true the x and y bounds are the caller's region_*
\* rectangle, minz and maxz stay those of the projected points, and the
\* centring offset and the XY scale are those of that rectangle: its
\* centre, and the smaller of bed.x / width and bed.y / height
C18_RegionFit ==
    (options # Null /\ options.regionfit /\ bounds # Null) =>
        /\ bounds.minx = options.region_minx * 1000
        /\ bounds.maxx = options.region_maxx * 1000
        /\ bounds.miny = options.region_miny * 1000
        /\ bounds.maxy = options.region_maxy * 1000
        /\ \A k \in 1..Len(projectedPoints) :
              /\ bounds.minz <= projectedPoints[k][3]
              /\ bounds.maxz >= projectedPoints[k][3]
        /\ \E k \in 1..Len(projectedPoints) :
              bounds.minz = projectedPoints[k][3]
        /\ \E k \in 1..Len(projectedPoints) :
              bounds.maxz = projectedPoints[k][3]
        /\ offset[1] = (options.region_minx + options.region_maxx) * 1000
        /\ offset[2] = (options.region_miny + options.region_maxy) * 1000
        /\ scale[1] * RegionWidth <= bedX * 1000 * scale[2]
        /\ scale[1] * RegionHeight <= bedY * 1000 * scale[2]
        /\ \/ scale[1] * RegionWidth = bedX * 1000 * scale[2]
           \/ scale[1] * RegionHeight = bedY * 1000 * scale[2]

\* generate has returned a model fitted to a region that is not the
\* rectangle of its points
C18_Witness ==
    /\ genpc = "returned"
    /\ options.regionfit
    /\ \E k \in 1..Len(projectedPoints) :
          projectedPoints[k][1] # bounds.minx
    /\ \A k \in 1..Len(projectedPoints) :
          projectedPoints[k][1] # bounds.maxx

\* ------------------------------------------------------------------------
\* Properties of GPXParser.parse
\* ------------------------------------------------------------------------
ParseOver == fnName = "parse" /\ fnpc = "returned"

\* the first <trk> of the parsed document, when it has one
FirstTrack == fnArgs.doc.trks[1]

RECURSIVE TrkptCount(_, _)
\* the number of <trkpt> elements in the segments from i on
TrkptCount(segments, i) ==
    IF i > Len(segments) THEN 0
    ELSE Len(segments[i]) + TrkptCount(segments, i + 1)

\* the k-th <trkpt> of a track in document order: in the first segment
\* that, with the segments before it, holds at least k points
TrkptAt(track, k) ==
    LET before(j) == TrkptCount(SubSeq(track.segs, 1, j - 1), 1)
        j == CHOOSE n \in 1..Len(track.segs) :
                 before(n) < k /\ k <= before(n) + Len(track.segs[n])
    IN track.segs[j][k - before(j)]

\* C14: the triple parse returns is one of two shapes: error set with
\* points and info null, or error null with points (two at least) and info
\* set
C14_ParseTriple ==
    ParseOver =>
        \/ /\ fnResult.error # ""
           /\ fnResult.points = Null
           /\ fnResult.info = Null
        \/ /\ fnResult.error = ""
           /\ fnResult.points # Null
           /\ Len(fnResult.points) >= 2
           /\ fnResult.info # Null
           /\ fnResult.info.totalPoints = Len(fnResult.points)

\* parse has refused a well-formed document whose first track holds a
\* point
C14_Witness ==
    /\ ParseOver
    /\ fnArgs.doc.wellFormed
    /\ Len(fnArgs.doc.trks) > 0
    /\ TrkptCount(FirstTrack.segs, 1) = 1
    /\ fnResult.error # ""

\* C15: a document whose first <trk> holds N >= 2 <trkpt> elements over
\* its segments parses to exactly N points, the k-th point read from the
\* k-th <trkpt> of that track in document order, and no point of a later
\* <trk> is among them
C15_FirstTrackInOrder ==
    (/\ ParseOver
     /\ fnArgs.doc.wellFormed
     /\ Len(fnArgs.doc.trks) > 0
     /\ TrkptCount(FirstTrack.segs, 1) >= 2) =>
        /\ fnResult.error = ""
        /\ Len(fnResult.points) = TrkptCount(FirstTrack.segs, 1)
        /\ \A k \in 1..Len(fnResult.points) :
              /\ fnResult.points[k][1] = parseFloat(TrkptAt(FirstTrack, k).lon)
              /\ fnResult.points[k][2] = parseFloat(TrkptAt(FirstTrack, k).lat)
              /\ fnResult.points[k][1] # 9

\* a first track of two segments that differ, both with points, followed
\* by a second track, has been parsed
C15_Witness ==
    /\ ParseOver
    /\ fnResult.error = ""
    /\ Len(fnArgs.doc.trks) = 2
    /\ Len(FirstTrack.segs) = 2
    /\ Len(FirstTrack.segs[1]) > 0
    /\ Len(FirstTrack.segs[2]) > 0
    /\ FirstTrack.segs[1][1] # FirstTrack.segs[2][1]

\* C16: parse reports the first failure in the order malformed XML, no
\* track, too few points, and succeeds otherwise: a document without a
\* track never reports too few points and a track of fewer than two points
\* never succeeds
C16_ErrorOrder ==
    ParseOver =>
        fnResult.error =
            IF ~fnArgs.doc.wellFormed THEN "xml"
            ELSE IF Len(fnArgs.doc.trks) = 0 THEN "notrack"
            ELSE IF TrkptCount(FirstTrack.segs, 1) < 2 THEN "fewpoints"
            ELSE ""

\* a malformed document without tracks has been refused as malformed
C16_Witness ==
    /\ ParseOver
    /\ ~fnArgs.doc.wellFormed
    /\ Len(fnArgs.doc.trks) = 0
    /\ fnResult.error = "xml"

\* C17: without the override a point's elevation is the value of its
\* first <ele> when it has one and defaultElevation when it has none; with
\* the override it is defaultElevation whatever the point holds
C17_ElevationRule ==
    (ParseOver /\ fnResult.error = "") =>
        \A k \in 1..Len(fnResult.points) :
            fnResult.points[k][3] =
                IF fnArgs.forceElevation
                    THEN fnArgs.defaultElevation
                ELSE IF Len(TrkptAt(FirstTrack, k).ele) > 0
                    THEN parseFloat(TrkptAt(FirstTrack, k).ele[1])
                ELSE fnArgs.defaultElevation

\* the override was on for a point that has its own elevation
C17_Witness ==
    /\ ParseOver
    /\ fnResult.error = ""
    /\ fnArgs.forceElevation
    /\ \E k \in 1..Len(fnResult.points) :
          /\ Len(TrkptAt(FirstTrack, k).ele) > 0
          /\ fnResult.points[k][3] # parseFloat(TrkptAt(FirstTrack, k).ele[1])

\* ------------------------------------------------------------------------
\* Properties of the UTM projection
\* ------------------------------------------------------------------------
UTMOver == fnName = "UTM.proj" /\ fnpc = "returned"

\* twice the midpoint longitude of the geographic bounds of the raw points
MidLon2 ==
    LET lons == {fnArgs[k][1] : k \in 1..Len(fnArgs)}
    IN (CHOOSE lo \in lons : \A l \in lons : lo <= l)
       + (CHOOSE hi \in lons : \A l \in lons : hi >= l)

\* twice the midpoint latitude of the geographic bounds of the raw points
MidLat2 ==
    LET lats == {fnArgs[k][2] : k \in 1..Len(fnArgs)}
    IN (CHOOSE lo \in lats : \A l \in lats : lo <= l)
       + (CHOOSE hi \in lats : \A l \in lats : hi >= l)

\* C19: with projtype 2 the zone is floor((lon + 180) / 6) + 1 at the
\* midpoint of the geographic bounds of all raw points, which lies in
\* 1..60 for a midpoint longitude in [-180, 180); ' +south' is appended
\* exactly when the midpoint latitude is negative; latitude -30 and
\* longitude -60 give zone 21 south
C19_UTMZone ==
    (UTMOver /\ MidLon2 >= 0 - 360 /\ MidLon2 < 360) =>
        /\ \E z \in 1..60 :
              /\ fnResult[2] = z
              /\ 12 * (z - 1) <= MidLon2 + 360
              /\ MidLon2 + 360 < 12 * z
        /\ fnResult[3] = " +south" <=> MidLat2 < 0
        /\ fnResult[3] \in {" +south", ""}
        /\ (MidLat2 = 0 - 60 /\ MidLon2 = 0 - 120) =>
              (fnResult[2] = 21 /\ fnResult[3] = " +south")

\* the projection of a track around latitude -30, longitude -60
C19_Witness ==
    /\ UTMOver
    /\ MidLat2 = 0 - 60
    /\ MidLon2 = 0 - 120
    /\ fnResult[2] = 21

\* ------------------------------------------------------------------------
\* Properties of distVincenty
\* ------------------------------------------------------------------------
VincentyCalled == fnName = "distVincenty"

VincentyOver == VincentyCalled /\ fnpc = "returned"

\* the loop was left after its 100th body without having settled
RanOut == fnLocals.runs = IterLimit /\ ~fnLocals.settled

VincentyReturns ==
    /\ VincentyCalled => fnLocals.runs <= IterLimit
    /\ VincentyOver =>
          /\ fnResult = NaN <=> (RanOut \/ iterationOn(fnArgs) = "nan")
          /\ RanOut => fnLocals.iterLimit = 0
          /\ iterationOn(fnArgs) = "nan" => fnLocals.runs = 1
          /\ fnLocals.settled => fnResult # NaN

ProgressInPhaseOrder ==
    /\ \A j \in 1..Len(CallProgress) : \A k \in 1..Len(CallProgress) :
          j < k => CallProgress[j] < CallProgress[k]
    /\ \A k \in 1..Len(CallProgress) :
          /\ CallProgress[k] = 30 => scanpc = "done"
          /\ CallProgress[k] = 50 => Len(projectedPoints) = Len(filteredPts)
          /\ CallProgress[k] = 70 =>
                Len(outputPoints) = Len(projectedPoints)
          /\ CallProgress[k] = 90 => pathpc = "done"

\* C21: within one generate call the progress callback receives strictly
\* increasing values, each phase value after its phase has completed, and
\* a final 100 when generation is done
C21_ProgressEndsAtHundred ==
    /\ genpc # "idle" => ProgressInPhaseOrder
    /\ genpc = "returned" =>
          (CallProgress # <<>> /\ CallProgress[Len(CallProgress)] = 100)

\* ------------------------------------------------------------------------
\* Properties of the kept points
\* ------------------------------------------------------------------------
\* C27: on every raw track of two or more points and for every smoothing
\* distance the distance filter leaves two or more kept points, so
\* smoothTotal is positive and the path builder never runs on a single
\* station, where segmentAngle reads before the first output point
C27_TwoKeptPoints ==
    /\ scanpc = "done" =>
          (Len(pts) >= 2 => (Len(ll) >= 2 /\ smoothTotal > 0))
    /\ pathpc # "idle" => NumPoints >= 2
    /\ pathpc # "threw"

\* ------------------------------------------------------------------------
\* Properties of the turn angles of the path builder
\* ------------------------------------------------------------------------
\* the turn at station i: angle(i) - angle(i - 1), and 0 at station 0
TurnAt(i) == IF i = 0 THEN 0 ELSE segmentAngle(i) - segmentAngle(i - 1)

\* station i has been passed by the loop without being accepted
Skipped(i) == i < pathI /\ \A k \in 1..Len(accepted) : accepted[k].i # i

\* the builder has left its loop, by its return or by an exception
PathOver == pathpc \in {"done", "threw"}

\* C22: station i is skipped if and only if it is not the last station,
\* the turn at i is acute and the turn at i + 1, angle(i + 1) - angle(i),
\* is acute too; the last station is never skipped, so at least one
\* station is always accepted
C22_SkipRule ==
    /\ pathpc \in {"loop", "done"} =>
          \A i \in 0..(pathI - 1) :
              Skipped(i) <=>
                  /\ i < NumPoints - 1
                  /\ isAcute(TurnAt(i))
                  /\ isAcute(segmentAngle(i + 1) - segmentAngle(i))
    /\ pathpc = "done" => ~Skipped(NumPoints - 1)
    /\ PathOver => Len(accepted) >= 1

\* C23: at every accepted station i > 0 the turn used for the acute test
\* and the mitre is angle(i) - angle(i - 1), angle(i - 1) being the
\* direction from point i - 1 to point i, and the joint direction is
\* angle(i - 1) + rel / 2, also when station i - 1 was skipped
C23_TurnFromPreviousSegment ==
    \A k \in 1..Len(accepted) :
        accepted[k].i > 0 =>
            /\ accepted[k].rel = TurnAt(accepted[k].i)
            /\ accepted[k].joint =
                   segmentAngle(accepted[k].i - 1) + accepted[k].rel \div 2

\* ------------------------------------------------------------------------
\* Properties of the markers
\* ------------------------------------------------------------------------
\* the markers have been projected
MarkersProjected == scanpc \in {"smooth", "filter", "done"}

\* the sum of the raw segment distances from point 0 to point k
CumulativeAt(k) == IF k = 0 THEN 0 ELSE rawpointcd[k]

\* the angle of the projected vector from raw endpoint seg - 1 to raw
\* endpoint seg, each endpoint at its own cumulative distance
SegmentOrientation(m) ==
    IF options.shapetype = SHAPE_RING
    THEN <<"ringangle", CumulativeAt(m.seg - 1), CumulativeAt(m.seg),
           totaldist>>
    ELSE vectorAngleOrNaN(
           projectMarkerPoint(projector, PtMilli(m.seg - 1),
                              CumulativeAt(m.seg - 1), totaldist),
           projectMarkerPoint(projector, PtMilli(m.seg),
                              CumulativeAt(m.seg), totaldist))

\* C24: each marker's orientation is the angle of the projected vector
\* from raw endpoint seg - 1 to raw endpoint seg of its segment, endpoint k
\* projected (linear and ring shapes) at the ratio of the raw distance from
\* point 0 to point k over the total raw distance; a marker on the last
\* raw segment has a finite orientation
C24_MarkerOrientation ==
    MarkersProjected =>
        \A k \in 1..Len(markers) :
            /\ markers[k].orientation = SegmentOrientation(markerObjs[k])
            /\ markers[k].orientation # NaN

\* the recorded position of the last marker placed, 0 before the first
LastMarkerPos ==
    IF markerObjs = <<>> THEN 0 ELSE markerObjs[Len(markerObjs)].pos

\* C25: at every step of the scan md is the cumulative raw distance minus
\* the position of the last marker, the first marker's position is
\* markerInterval, and consecutive markers' positions differ by
\* markerInterval, across segment boundaries
C25_UniformSpacing ==
    scanpc # "idle" =>
        /\ md = cd - LastMarkerPos
        /\ markerObjs # <<>> => markerObjs[1].pos = options.markerInterval
        /\ \A k \in 2..Len(markerObjs) :
              markerObjs[k].pos - markerObjs[k - 1].pos
                  = options.markerInterval

\* two markers, the second placed inside a later segment, the rest of
\* the interval having been walked in the segments before
C25_Witness ==
    /\ scanpc # "idle"
    /\ Len(markerObjs) >= 2
    /\ markerObjs[2].seg > markerObjs[1].seg + 1
    /\ md > 0

\* C26: every marker lies on the raw segment it is attributed to: its
\* interpolation fraction (markerInterval - md) / segdist is within
\* [0, 1] and its recorded position lies between the cumulative raw
\* distances of the endpoints of that segment
C26_MarkerOnItsSegment ==
    scanpc # "idle" =>
        \A k \in 1..Len(markerObjs) :
            /\ markerObjs[k].pd[2] > 0
            /\ 0 <= markerObjs[k].pd[1]
            /\ markerObjs[k].pd[1] <= markerObjs[k].pd[2]
            /\ CumulativeAt(markerObjs[k].seg - 1) <= markerObjs[k].pos
            /\ markerObjs[k].pos <= CumulativeAt(markerObjs[k].seg)

\* ------------------------------------------------------------------------
\* Properties of the application controller
\* ------------------------------------------------------------------------
\* C28: whenever the generate button is enabled a successfully parsed
\* track is held in state.gpxData, under any interleaving of file loads,
\* clicks and the deferred generation
C28_EnabledMeansTrack ==
    ~btnGenerateDisabled => gpxData # Null

\* a generation is pending: scheduled and its callback not yet finished
GenerationPending == Len(timers) > 0 \/ genpc # "idle"

\* C29: at most one generation is pending at any time: from the moment
\* generateModel schedules its deferred run until the finally block of
\* that run the generate button stays disabled
C29_OnePending ==
    /\ GenerationPending => btnGenerateDisabled
    /\ Len(timers) + (IF genpc # "idle" THEN 1 ELSE 0) <= 1

\* what the download handler offers on a click: nothing without a model,
\* else the STL of state.modelResult.code under the name of state.gpxInfo
stlOffered ==
    IF modelResult = Null THEN Null
    ELSE [code |-> modelResult.code,
          name |-> IF gpxInfo # Null THEN gpxInfo.name ELSE "modelo"]

\* C30: the STL offered for download belongs to the loaded track:
\* whenever state.modelResult is set it was generated from the points
\* now in state.gpxData
C30_ModelOfLoadedTrack ==
    stlOffered # Null => modelTrack = gpxData

====
